---- MODULE Spec2Model ----
(***************************************************************************)
(* RSA chat (src/RSA.py): the ChatApp session state, the length-prefixed   *)
(* frame codec (send_data / listen_for_messages), the KEYS handshake and   *)
(* the signed, encrypted JSON envelope (handle_received_message /          *)
(* send_message), for two ChatApp instances "A" and "B" and a foreign      *)
(* endpoint "X" that speaks raw bytes.                                     *)
(*                                                                         *)
(* Text is a sequence of code points, transport data a sequence of bytes   *)
(* (0..255).  Python's None is the empty sequence <<>>, a present value v  *)
(* is <<v>>.                                                               *)
(***************************************************************************)
EXTENDS Integers, Sequences, FiniteSets, TLC

VARIABLES
    key_pair,          \* key_pair[p]: self.rsa.key_pair, <<>> or <<[N, E, D]>>
    other_public_key,  \* other_public_key[p]: <<>> or <<[N, E]>>
    client_socket,     \* client_socket[p]: <<>> or <<[remote |-> endpoint]>>
    server_socket,     \* server_socket[p]: <<>> or <<"listening">>
    is_client,         \* is_client[p]
    window,            \* window[p]: "open" until disconnect() destroys it
    stored_keys,       \* stored_keys[p]: contents of storedKeys.json, <<>> when there is no file
    accept_thread,     \* accept_thread[p]: "none", "accepting" (blocked in accept()) or "done"
    backlog,           \* backlog[p]: <<>> or <<c>>: c connected to p's server socket, not yet accepted
    wire,              \* wire[p]: bytes the transport holds for p's socket, not yet returned by recv
    eof,               \* eof[p]: the remote end of p's connection was closed
    listener,          \* listener[p]: the listen_for_messages thread of p and its locals
    chat,              \* chat[p]: the lines the latest operation of p appended through update_chat
    out,               \* out[p]: the data the latest operation of p handed to sendall, frame by frame
    announced,         \* announced[p]: history, the public keys p wrote in KEYS frames on its connection
    inbound,           \* inbound[p]: history, what was written towards p on its connection, write by write
    dispatched,        \* dispatched[p]: history, the strings passed to handle_received_message
    rsa,               \* an RSA object by itself: the locals of its generate_keys call, its key pair, its latest result
    threads            \* threads[t]: where task t of one application is in send_public_key or decrypt, and its locals

vars == <<key_pair, other_public_key, client_socket, server_socket, is_client, window,
          stored_keys, accept_thread, backlog, wire, eof, listener, chat, out,
          announced, inbound, dispatched, rsa, threads>>

----------------------------------------------------------------------------
(* Bounds of the model *)

\* writes towards one application on one connection
MaxFrames == 2
\* number of values the stand-in for SHA-256 takes
HashRange == 40

----------------------------------------------------------------------------
(* Program constants *)

header_size == 10
recv_bufsize == 16
\* chr() takes the integers below 0x110000
chr_range == 1114112

Peers == {"A", "B"}
Foreign == "X"

None == <<>>
Some(v) == <<v>>

----------------------------------------------------------------------------
(* Sequences, text and bytes *)

Take(s, n) == SubSeq(s, 1, IF n < Len(s) THEN n ELSE Len(s))
Drop(s, n) == SubSeq(s, n + 1, Len(s))
SetMin(S) == CHOOSE x \in S : \A y \in S : x <= y
SetMax(S) == CHOOSE x \in S : \A y \in S : x >= y
StartsWith(s, pre) == Len(s) >= Len(pre) /\ SubSeq(s, 1, Len(pre)) = pre

\* index of the first occurrence of c in s, 0 when there is none (str.find + 1)
Find(s, c) ==
    LET I == {i \in 1..Len(s) : s[i] = c}
    IN IF I = {} THEN 0 ELSE SetMin(I)

IsDigit(b) == b >= 48 /\ b <= 57
IsSpace(b) == b \in {9, 10, 11, 12, 13, 32}

\* str(n) for an integer n
RECURSIVE DecStr(_)
DecStr(n) ==
    IF n < 0 THEN <<45>> \o DecStr(-n)
    ELSE IF n < 10 THEN <<48 + n>>
    ELSE DecStr(n \div 10) \o <<48 + (n % 10)>>

\* f"{s:<w}": left-justified in a field of w, padded with spaces, never cut
Ljust(s, w) == IF Len(s) >= w THEN s ELSE s \o [i \in 1..(w - Len(s)) |-> 32]

\* str.strip() / the whitespace int() ignores around a literal
Strip(s) ==
    LET I == {i \in 1..Len(s) : ~IsSpace(s[i])}
    IN IF I = {} THEN <<>> ELSE SubSeq(s, SetMin(I), SetMax(I))

RECURSIVE DigitsValue(_)
DigitsValue(s) ==
    IF s = <<>> THEN 0
    ELSE LET front == DigitsValue(SubSeq(s, 1, Len(s) - 1)) IN
         IF s[Len(s)] = 95 THEN front ELSE 10 * front + (s[Len(s)] - 48)

\* int(s) of a str or bytes literal in base 10: surrounding whitespace, an
\* optional sign, digits with single underscores between them; ok = FALSE is
\* ValueError
PyInt(s) ==
    LET t == Strip(s)
        signed == t # <<>> /\ t[1] \in {43, 45}
        d == IF signed THEN Drop(t, 1) ELSE t
        wellformed ==
            /\ d # <<>>
            /\ IsDigit(d[1]) /\ IsDigit(d[Len(d)])
            /\ \A i \in 1..Len(d) : IsDigit(d[i]) \/ d[i] = 95
            /\ \A i \in 1..(Len(d) - 1) : ~(d[i] = 95 /\ d[i + 1] = 95)
    IN IF ~wellformed THEN [ok |-> FALSE, v |-> 0]
       ELSE [ok |-> TRUE,
             v |-> IF signed /\ t[1] = 45 THEN -DigitsValue(d) ELSE DigitsValue(d)]

\* the UTF-8 bytes of one code point
Utf8Char(c) ==
    IF c < 128 THEN <<c>>
    ELSE IF c < 2048 THEN <<192 + (c \div 64), 128 + (c % 64)>>
    ELSE IF c < 65536
         THEN <<224 + (c \div 4096), 128 + ((c \div 64) % 64), 128 + (c % 64)>>
    ELSE <<240 + (c \div 262144), 128 + ((c \div 4096) % 64),
           128 + ((c \div 64) % 64), 128 + (c % 64)>>

\* str.encode(): UTF-8, the bytes of the code points in order
RECURSIVE Utf8Encode(_)
Utf8Encode(s) ==
    IF s = <<>> THEN <<>>
    ELSE IF Len(s) = 1 THEN Utf8Char(s[1])
    ELSE LET h == Len(s) \div 2
         IN Utf8Encode(SubSeq(s, 1, h)) \o Utf8Encode(SubSeq(s, h + 1, Len(s)))

IsCont(b) == b >= 128 /\ b <= 191

\* the length of the UTF-8 sequence a byte starts, 0 when it starts none
Utf8Width(c) ==
    IF c < 128 THEN 1
    ELSE IF c >= 194 /\ c <= 223 THEN 2
    ELSE IF c >= 224 /\ c <= 239 THEN 3
    ELSE IF c >= 240 /\ c <= 244 THEN 4
    ELSE 0

\* bytes.decode(): strict UTF-8; ok = FALSE is UnicodeDecodeError.  The
\* bytes are well formed when every byte that is no continuation byte starts
\* a sequence followed by exactly its continuation bytes.
Utf8Decode(b) ==
    LET Leads == {i \in 1..Len(b) : ~IsCont(b[i])}
        WellFormedAt(i) ==
            LET c == b[i]
                n == Utf8Width(c)
            IN /\ n > 0 /\ i + n - 1 <= Len(b)
               /\ \A k \in 1..(n - 1) : IsCont(b[i + k])
               /\ (i + n <= Len(b) => ~IsCont(b[i + n]))
               /\ (c = 224 => b[i + 1] >= 160)
               /\ (c = 237 => b[i + 1] <= 159)
               /\ (c = 240 => b[i + 1] >= 144)
               /\ (c = 244 => b[i + 1] <= 143)
        CodePoint(i) ==
            LET c == b[i]
                n == Utf8Width(c)
            IN IF n = 1 THEN c
               ELSE IF n = 2 THEN (c - 192) * 64 + (b[i + 1] - 128)
               ELSE IF n = 3
                    THEN (c - 224) * 4096 + (b[i + 1] - 128) * 64 + (b[i + 2] - 128)
               ELSE (c - 240) * 262144 + (b[i + 1] - 128) * 4096
                    + (b[i + 2] - 128) * 64 + (b[i + 3] - 128)
        Nth(k) == CHOOSE i \in Leads : Cardinality({j \in Leads : j <= i}) = k
    IN IF \A i \in 1..Len(b) : b[i] < 128 THEN [ok |-> TRUE, v |-> b]
       ELSE IF IsCont(b[1]) \/ \E i \in Leads : ~WellFormedAt(i)
            THEN [ok |-> FALSE, v |-> <<>>]
       ELSE [ok |-> TRUE, v |-> [k \in 1..Cardinality(Leads) |-> CodePoint(Nth(k))]]

----------------------------------------------------------------------------
(* RSA: encrypt, decrypt, sign, verify *)

\* (a * b) % m for a, b >= 0 without a product beyond 32 bits (Python's
\* integers are unbounded): by doubling when a factor is 46341 or more
RECURSIVE MulMod(_, _, _)
MulMod(a, b, m) ==
    IF a < 46341 /\ b < 46341 THEN (a * b) % m
    ELSE IF b = 0 THEN 0
    ELSE (((2 * MulMod(a % m, b \div 2, m)) % m) + (IF b % 2 = 1 THEN a % m ELSE 0)) % m

\* the step of pow for the square h of the half exponent
PowStep(h, b, e, m) ==
    IF e % 2 = 1 THEN MulMod(MulMod(h, h, m), b % m, m) ELSE MulMod(h, h, m)

\* pow(b, e, m) for e >= 0 and m > 0
RECURSIVE ModExp(_, _, _)
ModExp(b, e, m) ==
    IF e = 0 THEN 1 % m
    ELSE PowStep(ModExp(b, e \div 2, m), b, e, m)

\* RSA.encrypt: one integer per character, in order
encrypt(message, public_key) ==
    [i \in 1..Len(message) |-> ModExp(message[i], public_key.E, public_key.N)]

\* RSA.decrypt applied to a list of integers under key pair kp.
\* decryptByE is the variant that raises to the public exponent.
decryptByE(kp, encrypted_message) ==
    [i \in 1..Len(encrypted_message) |-> ModExp(encrypted_message[i], kp.E, kp.N)]

decrypt(kp, encrypted_message) ==
    [i \in 1..Len(encrypted_message) |-> ModExp(encrypted_message[i], kp.D, kp.N)]

\* int(RSA.create_hash(message), 16).  SHA-256 is replaced by a digest of
\* the UTF-8 bytes with HashRange values; the code reads the digest only as
\* one integer.
RECURSIVE Digest(_)
Digest(b) ==
    IF b = <<>> THEN 7 % HashRange
    ELSE (31 * Digest(SubSeq(b, 1, Len(b) - 1)) + b[Len(b)] + 1) % HashRange

create_hash(message) == Digest(Utf8Encode(message))

\* message.encode() does not raise: no code point is a surrogate
Encodable(message) ==
    \A i \in 1..Len(message) : message[i] < 55296 \/ message[i] > 57343

\* chr(i) does not raise ValueError
IsChr(i) == i >= 0 /\ i < chr_range

\* RSA.sign under key pair kp
sign(kp, message) == ModExp(create_hash(message), kp.D, kp.N)

\* RSA.verify against a present public key
verify(message, signature, public_key) ==
    create_hash(message) = ModExp(signature, public_key.E, public_key.N)

----------------------------------------------------------------------------
(* JSON text: json.dumps of the envelope, json.loads of a received body.   *)
(* A JSON value is a record [t, v]: t is "int", "str", "list", "dict",     *)
(* "bool" or "null".  Numbers are integers; a list holds values of one     *)
(* kind.                                                                   *)

JInt(n) == [t |-> "int", v |-> n]
JStr(s) == [t |-> "str", v |-> s]
JList(l) == [t |-> "list", v |-> l]
JDict(d) == [t |-> "dict", v |-> d]

HexDigit(n) == IF n < 10 THEN 48 + n ELSE 87 + n
Hex4(c) == <<HexDigit((c \div 4096) % 16), HexDigit((c \div 256) % 16),
             HexDigit((c \div 16) % 16), HexDigit(c % 16)>>

\* the characters of a str as json.dumps writes them (ensure_ascii)
RECURSIVE JsonStrBody(_)
JsonStrBody(s) ==
    IF s = <<>> THEN <<>>
    ELSE LET c == s[1]
             e == IF c = 34 THEN <<92, 34>>
                  ELSE IF c = 92 THEN <<92, 92>>
                  ELSE IF c = 10 THEN <<92, 110>>
                  ELSE IF c = 13 THEN <<92, 114>>
                  ELSE IF c = 9 THEN <<92, 116>>
                  ELSE IF c = 8 THEN <<92, 98>>
                  ELSE IF c = 12 THEN <<92, 102>>
                  ELSE IF c >= 32 /\ c <= 126 THEN <<c>>
                  ELSE <<92, 117>> \o Hex4(c)
         IN e \o JsonStrBody(Drop(s, 1))

RECURSIVE JsonIntList(_)
JsonIntList(l) ==
    IF l = <<>> THEN <<>>
    ELSE IF Len(l) = 1 THEN DecStr(l[1])
    ELSE DecStr(l[1]) \o <<44, 32>> \o JsonIntList(Drop(l, 1))

\* json.dumps({"nickname": .., "message": [..], "signature": ..})
JsonDumpsEnvelope(nickname, encrypted_message, signature) ==
    <<123, 34, 110, 105, 99, 107, 110, 97, 109, 101, 34, 58, 32>>
        \o <<34>> \o JsonStrBody(nickname) \o <<34>>
    \o <<44, 32, 34, 109, 101, 115, 115, 97, 103, 101, 34, 58, 32>>
        \o <<91>> \o JsonIntList(encrypted_message) \o <<93>>
    \o <<44, 32, 34, 115, 105, 103, 110, 97, 116, 117, 114, 101, 34, 58, 32>>
        \o DecStr(signature)
    \o <<125>>

JFail == [ok |-> FALSE, v |-> JInt(0), i |-> 1]
JOk(v, i) == [ok |-> TRUE, v |-> v, i |-> i]

\* the first index >= i of s that holds no JSON whitespace
SkipWs(s, i) ==
    LET J == {j \in i..Len(s) : s[j] \notin {9, 10, 13, 32}}
    IN IF J = {} THEN Len(s) + 1 ELSE SetMin(J)

HexValue(c) ==
    IF IsDigit(c) THEN c - 48
    ELSE IF c >= 97 /\ c <= 102 THEN c - 87
    ELSE IF c >= 65 /\ c <= 70 THEN c - 55
    ELSE -1

\* a sequence result r with x put in front of what it read
SeqFail == [ok |-> FALSE, v |-> <<>>, i |-> 1]
Cons(x, r) == IF r.ok THEN [r EXCEPT !.v = <<x>> \o @] ELSE r

\* the character a backslash escape e stands for, -1 for an invalid escape
Escape(e) ==
    IF e \in {34, 92, 47} THEN e
    ELSE IF e = 110 THEN 10
    ELSE IF e = 114 THEN 13
    ELSE IF e = 116 THEN 9
    ELSE IF e = 98 THEN 8
    ELSE IF e = 102 THEN 12
    ELSE -1

\* the characters of a string literal from index i up to its closing quote
RECURSIVE ParseStrBody(_, _)
ParseStrBody(s, i) ==
    IF i > Len(s) THEN SeqFail
    ELSE IF s[i] = 34 THEN [ok |-> TRUE, v |-> <<>>, i |-> i + 1]
    ELSE IF s[i] < 32 THEN SeqFail
    ELSE IF s[i] # 92 THEN Cons(s[i], ParseStrBody(s, i + 1))
    ELSE IF i + 1 > Len(s) THEN SeqFail
    ELSE IF s[i + 1] = 117
         THEN IF i + 5 > Len(s) \/ \E k \in 2..5 : HexValue(s[i + k]) < 0
              THEN SeqFail
              ELSE Cons(HexValue(s[i + 2]) * 4096 + HexValue(s[i + 3]) * 256
                            + HexValue(s[i + 4]) * 16 + HexValue(s[i + 5]),
                        ParseStrBody(s, i + 6))
    ELSE IF Escape(s[i + 1]) < 0 THEN SeqFail
    ELSE Cons(Escape(s[i + 1]), ParseStrBody(s, i + 2))

\* an integer literal at index i: -? (0 | [1-9][0-9]*)
ParseNumber(s, i) ==
    LET neg == s[i] = 45
        b == IF neg THEN i + 1 ELSE i
        stop == {j \in b..Len(s) : ~IsDigit(s[j])}
        e == IF stop = {} THEN Len(s) + 1 ELSE SetMin(stop)
        last == IF b <= Len(s) /\ s[b] = 48 THEN b + 1 ELSE e
        n == DigitsValue(SubSeq(s, b, last - 1))
    IN IF last = b THEN JFail
       ELSE JOk(JInt(IF neg THEN -n ELSE n), last)

\* the JSON value of kind t that the sequence result r holds
Tagged(t, r) == IF r.ok THEN JOk([t |-> t, v |-> r.v], r.i) ELSE JFail

\* The JSON decoder from index i of s, one operator for its three mutually
\* recursive parts: what = "value" reads a value, "elems" the elements of an
\* array (after "[" or ",") up to "]", "members" the members of an object
\* (from the quote of a key) up to "}"
RECURSIVE Parse(_, _, _)

\* after the element r of an array, at index j
ElemsAfter(s, r, j) ==
    IF ~r.ok \/ j > Len(s) THEN SeqFail
    ELSE IF s[j] = 93 THEN [ok |-> TRUE, v |-> <<r.v>>, i |-> j + 1]
    ELSE IF s[j] # 44 THEN SeqFail
    ELSE Cons(r.v, Parse("elems", s, SkipWs(s, j + 1)))

ElemsStep(s, r) == ElemsAfter(s, r, SkipWs(s, r.i))

\* after the value r of the member named k of an object, at index j
MembersAfter(s, k, r, j) ==
    IF ~r.ok \/ j > Len(s) THEN SeqFail
    ELSE IF s[j] = 125 THEN [ok |-> TRUE, v |-> <<[k |-> k, v |-> r.v]>>, i |-> j + 1]
    ELSE IF s[j] # 44 THEN SeqFail
    ELSE Cons([k |-> k, v |-> r.v], Parse("members", s, SkipWs(s, j + 1)))

MemberStep(s, k, r) == MembersAfter(s, k, r, SkipWs(s, r.i))

\* after the key k of a member, at index c where its colon must be
MemberValue(s, k, c) ==
    IF ~k.ok \/ c > Len(s) THEN SeqFail
    ELSE IF s[c] # 58 THEN SeqFail
    ELSE MemberStep(s, k.v, Parse("value", s, SkipWs(s, c + 1)))

\* after the quote that opens the key of a member
MemberKey(s, k) == MemberValue(s, k, SkipWs(s, k.i))

\* after "[" and after "{", at index j
ArrayAt(s, j) ==
    IF j <= Len(s) /\ s[j] = 93 THEN JOk(JList(<<>>), j + 1)
    ELSE Tagged("list", Parse("elems", s, j))
ObjectAt(s, j) ==
    IF j <= Len(s) /\ s[j] = 125 THEN JOk(JDict(<<>>), j + 1)
    ELSE Tagged("dict", Parse("members", s, j))

Parse(what, s, i) ==
    IF what = "elems"
    THEN ElemsStep(s, Parse("value", s, i))
    ELSE IF what = "members"
    THEN IF i > Len(s) THEN SeqFail
         ELSE IF s[i] # 34 THEN SeqFail
         ELSE MemberKey(s, ParseStrBody(s, i + 1))
    ELSE IF i > Len(s) THEN JFail
    ELSE IF s[i] = 34 THEN Tagged("str", ParseStrBody(s, i + 1))
    ELSE IF s[i] = 91 THEN ArrayAt(s, SkipWs(s, i + 1))
    ELSE IF s[i] = 123 THEN ObjectAt(s, SkipWs(s, i + 1))
    ELSE IF s[i] = 45 \/ IsDigit(s[i]) THEN ParseNumber(s, i)
    ELSE IF StartsWith(Drop(s, i - 1), <<116, 114, 117, 101>>)
         THEN JOk([t |-> "bool", v |-> 1], i + 4)
    ELSE IF StartsWith(Drop(s, i - 1), <<102, 97, 108, 115, 101>>)
         THEN JOk([t |-> "bool", v |-> 0], i + 5)
    ELSE IF StartsWith(Drop(s, i - 1), <<110, 117, 108, 108>>)
         THEN JOk([t |-> "null", v |-> 0], i + 4)
    ELSE JFail

\* json.loads(s): ok = FALSE is json.JSONDecodeError
Whole(s, r) ==
    IF r.ok /\ SkipWs(s, r.i) = Len(s) + 1 THEN [ok |-> TRUE, v |-> r.v]
    ELSE [ok |-> FALSE, v |-> JInt(0)]
JsonLoads(s) == Whole(s, Parse("value", s, SkipWs(s, 1)))

\* d[key] of a parsed dict: the last member of that name; found = FALSE is KeyError
DictGet(d, key) ==
    LET I == {i \in 1..Len(d) : d[i].k = key}
    IN IF I = {} THEN [found |-> FALSE, v |-> JInt(0)]
       ELSE [found |-> TRUE, v |-> d[SetMax(I)].v]

\* RSA.__init__: no key pair; no call of generate_keys is running
NoResult == [op |-> "none", message |-> <<>>, ints |-> <<>>, ok |-> FALSE]
\* no call of is_prime was made: its arguments, the bases its passes drew,
\* and what it returned
NoTest == [pc |-> "none", n |-> 0, k |-> 0, bases |-> <<>>, result |-> FALSE]
NewRsa ==
    [pc |-> "idle", key_length |-> 0, cand |-> 0, p |-> 0, q |-> 0, e |-> 0,
     key_pair |-> None, how |-> "none", last |-> NoResult, test |-> NoTest]

\* The tasks of one application: the Tk main loop, the accept_connections
\* thread and the listen_for_messages thread
Tasks == {"ui", "accept", "recv"}
\* A task: where it is (pc) in the operation it runs, how many operations it
\* started, the key fields it has read, the ciphertext units decrypt has
\* still to do and the fields it used for those it did, the signature of
\* the envelope, and what sendall has still to write
IdleTask ==
    [pc |-> "idle", calls |-> 0, N |-> 0, E |-> 0, D |-> 0, todo |-> <<>>,
     used |-> <<>>, signature |-> JInt(0), rest |-> <<>>]
\* the tasks, and the writes socket.send made on the connection, in order,
\* since it was last at a frame boundary
IdleThreads == [task |-> [t \in Tasks |-> IdleTask], sent |-> <<>>]

----------------------------------------------------------------------------
(* The state as one record, so that a handler is a function from state to  *)
(* state and the calls of a handler compose in program order.              *)

Cur ==
    [key_pair |-> key_pair, other_public_key |-> other_public_key,
     client_socket |-> client_socket, server_socket |-> server_socket,
     is_client |-> is_client, window |-> window, stored_keys |-> stored_keys,
     accept_thread |-> accept_thread, backlog |-> backlog, wire |-> wire,
     eof |-> eof, listener |-> listener, chat |-> chat, out |-> out,
     announced |-> announced, inbound |-> inbound, dispatched |-> dispatched]

InstallApp(s) ==
    \E t \in {s} :
        /\ key_pair' = t.key_pair
        /\ other_public_key' = t.other_public_key
        /\ client_socket' = t.client_socket
        /\ server_socket' = t.server_socket
        /\ is_client' = t.is_client
        /\ window' = t.window
        /\ stored_keys' = t.stored_keys
        /\ accept_thread' = t.accept_thread
        /\ backlog' = t.backlog
        /\ wire' = t.wire
        /\ eof' = t.eof
        /\ listener' = t.listener
        /\ chat' = t.chat
        /\ out' = t.out
        /\ announced' = t.announced
        /\ inbound' = t.inbound
        /\ dispatched' = t.dispatched

Install(s) == InstallApp(s) /\ UNCHANGED <<rsa, threads>>

\* the state at the start of an operation of p: its output starts empty
Begin(p) == [Cur EXCEPT !.chat[p] = <<>>, !.out[p] = <<>>]

\* ChatApp.update_chat: one line; kind is the format string, nick and text
\* what it interpolates
Line(kind, nick, text) == [kind |-> kind, nick |-> nick, text |-> text]
update_chat(s, p, kind) ==
    [s EXCEPT !.chat[p] = Append(@, Line(kind, JStr(<<>>), <<>>))]

\* the locals of listen_for_messages at the top of its try block
FreshListener ==
    [state |-> "running", full_message |-> <<>>, new_msg |-> TRUE, msg_length |-> 0]
NoListener ==
    [state |-> "none", full_message |-> <<>>, new_msg |-> TRUE, msg_length |-> 0]

----------------------------------------------------------------------------
(* Sending *)

Remote(s, p) == s.client_socket[p][1].remote

\* whether client_socket.sendall can raise: the socket never connected, or
\* the remote end is closed (a write to a closed peer may also still succeed)
WriteOutcomes(p) ==
    IF client_socket[p] = None THEN {FALSE}
    ELSE IF client_socket[p][1].remote = "unconnected" THEN {TRUE}
    ELSE IF eof[p] # "no" THEN {TRUE, FALSE}
    ELSE {FALSE}

\* socket.sendall that returns: the bytes are queued for the remote end
\* (dropped when nobody is left to read them)
sendall(s, p, bytes, data) ==
    LET r == Remote(s, p)
        s1 == [s EXCEPT !.out[p] = Append(@, data)]
    IN IF r \in Peers /\ s.eof[p] = "no" /\ s.window[r] = "open"
       THEN [s1 EXCEPT !.wire[r] = @ \o bytes, !.inbound[r] = Append(@, data)]
       ELSE s1

\* message_header + message of send_data: the length of the encoded data,
\* left-justified in header_size bytes, then the encoded data
FrameOf(data) ==
    LET message == Utf8Encode(data)
        message_header == Ljust(DecStr(Len(message)), header_size)
    IN message_header \o message

\* ChatApp.send_data; werr: sendall raises
send_data(s, p, data, werr) ==
    IF s.client_socket[p] # None
    THEN IF werr THEN update_chat(s, p, "Sending error")
         ELSE sendall(s, p, FrameOf(data), data)
    ELSE update_chat(s, p, "Not connected to any client or server.")

\* f"KEYS:{N},{E}"
KeyMessage(N, E) == <<75, 69, 89, 83, 58>> \o DecStr(N) \o <<44>> \o DecStr(E)

\* ChatApp.send_public_key
send_public_key(s, p, werr) ==
    IF s.client_socket[p] # None /\ s.key_pair[p] # None
    THEN LET N == s.key_pair[p][1].N
             E == s.key_pair[p][1].E
             s1 == send_data(s, p, KeyMessage(N, E), werr)
             s2 == IF werr THEN s1
                   ELSE [s1 EXCEPT !.announced[p] = @ \cup {[N |-> N, E |-> E]}]
         IN update_chat(s2, p, "Public key sent.")
    ELSE update_chat(s, p, "Cannot send public key; no connection or keys not generated.")

\* ChatApp.send_message with the contents of the message and nickname
\* entries.  send_messageUngated is the variant that sends the message as it
\* is when the keys are not there.
send_messageUngated(s, p, message, nickname_entry, werr) ==
    IF s.other_public_key[p] # None /\ s.key_pair[p] # None
    THEN LET signature == sign(s.key_pair[p][1], message)
             encrypted_message == encrypt(message, s.other_public_key[p][1])
             nickname == IF nickname_entry # <<>> THEN nickname_entry
                         ELSE <<65, 110, 111, 110, 121, 109, 111, 117, 115>>
             s1 == send_data(s, p, JsonDumpsEnvelope(nickname, encrypted_message, signature),
                             werr)
         IN [s1 EXCEPT !.chat[p] = Append(@, Line("You", JStr(<<>>), message))]
    ELSE update_chat(send_data(s, p, message, werr), p, "Encryption keys not exchanged.")

send_message(s, p, message, nickname_entry, werr) ==
    IF s.other_public_key[p] # None /\ s.key_pair[p] # None
    THEN LET signature == sign(s.key_pair[p][1], message)
             encrypted_message == encrypt(message, s.other_public_key[p][1])
             nickname == IF nickname_entry # <<>> THEN nickname_entry
                         ELSE <<65, 110, 111, 110, 121, 109, 111, 117, 115>>
             s1 == send_data(s, p, JsonDumpsEnvelope(nickname, encrypted_message, signature),
                             werr)
         IN [s1 EXCEPT !.chat[p] = Append(@, Line("You", JStr(<<>>), message))]
    ELSE update_chat(s, p, "Encryption keys not exchanged.")

----------------------------------------------------------------------------
(* Receiving *)

\* "KEYS:<N>,<E>": split(":", 1), split(",", 1) and int(); ok = FALSE is the
\* ValueError of the unpacking or of int()
ParseKeys(message) ==
    LET key_data == Drop(message, 5)
        comma == Find(key_data, 44)
        N == PyInt(SubSeq(key_data, 1, comma - 1))
        E == PyInt(Drop(key_data, comma))
    IN IF comma = 0 \/ ~N.ok \/ ~E.ok THEN [ok |-> FALSE, N |-> 0, E |-> 0]
       ELSE [ok |-> TRUE, N |-> N.v, E |-> E.v]

\* what RSA.decrypt iterates over: the items of a list, the characters of a
\* str, the keys of a dict; ok = FALSE is TypeError
Items(value) ==
    IF value.t = "list" THEN [ok |-> TRUE, v |-> value.v]
    ELSE IF value.t = "str" THEN [ok |-> TRUE, v |-> [i \in 1..Len(value.v) |-> JStr(<<value.v[i]>>)]]
    ELSE IF value.t = "dict" THEN [ok |-> TRUE, v |-> [i \in 1..Len(value.v) |-> JStr(value.v[i].k)]]
    ELSE [ok |-> FALSE, v |-> <<>>]

\* pow() takes int and bool
IsIntLike(value) == value.t \in {"int", "bool"}

\* self.rsa.verify(decrypted_message, signature, self.other_public_key) as
\* the condition of the if: "chat" when it returns True, "invalid" when it
\* returns False, "error" when it raises (no public key to read E and N
\* of, a signature pow() does not take).  VerifyOutcomeUngated is the
\* variant that takes a missing public key for a valid signature.
VerifyOutcomeUngated(other, decrypted_message, signature) ==
    IF other = None THEN "chat"
    ELSE IF ~Encodable(decrypted_message) THEN "error"
    ELSE IF ~IsIntLike(signature) THEN "error"
    ELSE IF verify(decrypted_message, signature.v, other[1]) THEN "chat"
    ELSE "invalid"

VerifyOutcome(other, decrypted_message, signature) ==
    IF other = None THEN "error"
    ELSE IF ~Encodable(decrypted_message) THEN "error"
    ELSE IF ~IsIntLike(signature) THEN "error"
    ELSE IF verify(decrypted_message, signature.v, other[1]) THEN "chat"
    ELSE "invalid"

\* The else branch of handle_received_message up to its outcome:
\* "json" (JSONDecodeError), "error" (any other exception), "invalid"
\* (verify returned False) or "chat" (verify returned True), step by step:
\* the outcome of the if, with what the chat line interpolates
Outcome(kind, nickname, text) ==
    IF kind = "chat" THEN [kind |-> "chat", nick |-> nickname, text |-> text]
    ELSE [kind |-> kind, nick |-> JStr(<<>>), text |-> <<>>]

\* the if over verify of the decrypted message.  OutcomeOfTextUnverified is
\* the variant that displays the decrypted message whatever verify says.
OutcomeOfTextUnverified(other, decrypted_message, signature, nickname) ==
    Outcome("chat", nickname, decrypted_message)

OutcomeOfText(other, decrypted_message, signature, nickname) ==
    Outcome(VerifyOutcome(other, decrypted_message, signature), nickname, decrypted_message)

\* ''.join of chr() of the integers decrypt computed
OutcomeOfChars(other, codes, signature, nickname) ==
    IF \E i \in 1..Len(codes) : ~IsChr(codes[i]) THEN Outcome("error", nickname, <<>>)
    ELSE OutcomeOfText(other, codes, signature, nickname)

\* self.rsa.decrypt(encrypted_message) over the items of encrypted_message
OutcomeOfItems(s, p, items, signature, nickname) ==
    IF ~items.ok THEN Outcome("error", nickname, <<>>)
    ELSE IF \E i \in 1..Len(items.v) : ~IsIntLike(items.v[i])
    THEN Outcome("error", nickname, <<>>)
    ELSE OutcomeOfChars(s.other_public_key[p],
                        decrypt(s.key_pair[p][1], [i \in 1..Len(items.v) |-> items.v[i].v]),
                        signature, nickname)

\* received_data["message"], received_data["signature"] and
\* received_data.get("nickname", "Unknown")
OutcomeOfFields(s, p, encrypted_message, signature, nick) ==
    IF ~encrypted_message.found \/ ~signature.found THEN Outcome("error", nick.v, <<>>)
    ELSE IF s.key_pair[p] = None THEN Outcome("error", nick.v, <<>>)
    ELSE OutcomeOfItems(s, p, Items(encrypted_message.v), signature.v,
                        IF nick.found THEN nick.v
                        ELSE JStr(<<85, 110, 107, 110, 111, 119, 110>>))

\* received_data = json.loads(message)
OutcomeOfData(s, p, received_data) ==
    IF ~received_data.ok THEN Outcome("json", JStr(<<>>), <<>>)
    ELSE IF received_data.v.t # "dict" THEN Outcome("error", JStr(<<>>), <<>>)
    ELSE OutcomeOfFields(s, p,
             DictGet(received_data.v.v, <<109, 101, 115, 115, 97, 103, 101>>),
             DictGet(received_data.v.v, <<115, 105, 103, 110, 97, 116, 117, 114, 101>>),
             DictGet(received_data.v.v, <<110, 105, 99, 107, 110, 97, 109, 101>>))

EnvelopeOutcome(s, p, message) == OutcomeOfData(s, p, JsonLoads(message))

\* the update_chat of the else branch for outcome o
ShowOutcome(s, p, o) ==
    IF o.kind = "chat"
    THEN [s EXCEPT !.chat[p] = Append(@, Line("chat", o.nick, o.text))]
    ELSE IF o.kind = "invalid" THEN update_chat(s, p, "Signature verification failed.")
    ELSE IF o.kind = "json" THEN update_chat(s, p, "JSON decoding error")
    ELSE update_chat(s, p, "Message handling error")

\* the KEYS branch of handle_received_message for the parsed key k.
\* TakeKeyPinned is the variant that keeps a remote key once it has one.
TakeKeyPinned(s, p, k, werr) ==
    IF k.ok
    THEN LET s1 == IF s.other_public_key[p] # None THEN s
                   ELSE [s EXCEPT !.other_public_key[p] = Some([N |-> k.N, E |-> k.E])]
             s2 == update_chat(s1, p, "Received public key.")
         IN IF ~s.is_client[p] THEN send_public_key(s2, p, werr) ELSE s2
    ELSE update_chat(s, p, "Public key error")

TakeKey(s, p, k, werr) ==
    IF k.ok
    THEN LET s1 == [s EXCEPT !.other_public_key[p] = Some([N |-> k.N, E |-> k.E])]
             s2 == update_chat(s1, p, "Received public key.")
         IN IF ~s.is_client[p] THEN send_public_key(s2, p, werr) ELSE s2
    ELSE update_chat(s, p, "Public key error")

\* message was passed to handle_received_message
Handled(s, p, message) == [s EXCEPT !.dispatched[p] = Append(@, message)]

\* ChatApp.handle_received_message
handle_received_message(s, p, message, werr) ==
    IF StartsWith(message, <<75, 69, 89, 83, 58>>)
    THEN TakeKey(Handled(s, p, message), p, ParseKeys(message), werr)
    ELSE ShowOutcome(Handled(s, p, message), p,
                     EnvelopeOutcome(Handled(s, p, message), p, message))

\* the except branch of listen_for_messages: report and leave the loop
ReceivingError(s, p) ==
    update_chat([s EXCEPT !.listener[p].state = "exited"], p, "Receiving error")

\* One pass of the inner loop of listen_for_messages with the bytes recv
\* returned; raised: recv raised instead
listen_for_messages(s, p, message, raised, werr) ==
    LET L == s.listener[p]
        header == PyInt(Take(message, header_size))
        msg_length == IF L.new_msg THEN header.v ELSE L.msg_length
        full_message == L.full_message \o message
        body == Utf8Decode(Drop(full_message, header_size))
    IN IF raised THEN ReceivingError(s, p)
       ELSE IF L.new_msg /\ ~header.ok THEN ReceivingError(s, p)
       ELSE IF Len(full_message) - header_size = msg_length
            THEN IF ~body.ok
                 THEN ReceivingError(
                          [s EXCEPT !.listener[p] =
                              [L EXCEPT !.new_msg = FALSE, !.msg_length = msg_length,
                                        !.full_message = full_message]], p)
                 ELSE LET s1 == handle_received_message(s, p, body.v, werr)
                      IN [s1 EXCEPT !.listener[p] =
                              [L EXCEPT !.new_msg = TRUE, !.msg_length = msg_length,
                                        !.full_message = <<>>]]
       ELSE [s EXCEPT !.listener[p] =
                [L EXCEPT !.new_msg = FALSE, !.msg_length = msg_length,
                          !.full_message = full_message]]

----------------------------------------------------------------------------
(* Key management *)

\* Key pairs generate_keys stores at key_length 12 (two 6-bit primes): N = p*q,
\* E in [2^16, 2^17) coprime to lcm(p-1, q-1), D the inverse of E
KeyPairs ==
    {[N |-> 3233, E |-> 65537, D |-> 413], [N |-> 2021, E |-> 65537, D |-> 467]}

\* ChatApp.generate_new_keys (with store_keys); kp is what generate_keys stored
generate_new_keys(s, p, kp) ==
    LET s1 == [s EXCEPT !.key_pair[p] = Some(kp), !.stored_keys[p] = Some(kp)]
        s2 == update_chat(s1, p, "Keys stored successfully.")
    IN update_chat(s2, p, "New keys generated.")

\* ChatApp.load_stored_keys
load_stored_keys(s, p, kp) ==
    IF s.stored_keys[p] # None
    THEN update_chat([s EXCEPT !.key_pair[p] = s.stored_keys[p]], p, "Stored keys loaded.")
    ELSE generate_new_keys(
             update_chat(s, p, "No stored keys found. Generating new keys..."), p, kp)

GenerateNewKeys(p, kp) ==
    /\ window[p] = "open"
    /\ Install(generate_new_keys(Begin(p), p, kp))

LoadStoredKeys(p, kp) ==
    /\ window[p] = "open"
    /\ Install(load_stored_keys(Begin(p), p, kp))

----------------------------------------------------------------------------
(* Connections.  An application uses one connection at a time: it hosts    *)
(* once, and dials again only when its previous connection is over (the    *)
(* remote end closed, every byte was read and the receive loop has exited  *)
(* or spins on the closed socket).                                         *)

PrevConnectionOver(p) ==
    IF client_socket[p] = None THEN TRUE
    ELSE IF client_socket[p][1].remote = "unconnected" THEN TRUE
    ELSE /\ eof[p] # "no"
         /\ wire[p] = <<>>
         /\ IF listener[p].state = "running"
            THEN ~listener[p].new_msg /\ eof[p] = "fin"
            ELSE listener[p].state = "exited"

\* ChatApp.start_server; bound: whether bind and listen succeed
StartServer(p, bound) ==
    /\ window[p] = "open"
    /\ server_socket[p] = None
    /\ PrevConnectionOver(p)
    /\ LET s == Begin(p) IN
       IF bound
       THEN Install(update_chat([s EXCEPT !.server_socket[p] = Some("listening"),
                                          !.accept_thread[p] = "accepting"],
                                p, "Server listening"))
       ELSE Install(update_chat([s EXCEPT !.server_socket[p] = Some("unbound")],
                                p, "Server error"))

CanDial(c) ==
    /\ window[c] = "open"
    /\ accept_thread[c] # "accepting"
    /\ PrevConnectionOver(c)

\* a server the dialled address answers at: the foreign endpoint, or an
\* application blocked in accept()
Answers(l) ==
    \/ l = Foreign
    \/ /\ l \in Peers
       /\ window[l] = "open"
       /\ server_socket[l] = Some("listening")
       /\ accept_thread[l] = "accepting"
       /\ backlog[l] = None

\* the histories of p start over with a connection of p
NewConnection(s, p) ==
    [s EXCEPT !.announced[p] = {}, !.dispatched[p] = <<>>]

\* the transport of a connection towards p starts empty
NewTransport(s, p) ==
    [s EXCEPT !.wire[p] = <<>>, !.eof[p] = "no", !.inbound[p] = <<>>]

\* ChatApp.connect_to_server when connect() succeeds
ConnectToServer(c, l) ==
    /\ CanDial(c)
    /\ l # c
    /\ Answers(l)
    /\ LET s0 == NewTransport(NewConnection(Begin(c), c), c)
           s1 == [s0 EXCEPT !.client_socket[c] = Some([remote |-> l])]
           s2 == IF l \in Peers
                 THEN [NewTransport(s1, l) EXCEPT !.backlog[l] = Some(c)]
                 ELSE s1
           s3 == update_chat(s2, c, "Connected to server")
           s4 == [s3 EXCEPT !.is_client[c] = TRUE, !.listener[c] = FreshListener]
       IN Install(send_public_key(s4, c, FALSE))

\* ChatApp.connect_to_server when int() or connect() raises
ConnectFails(c) ==
    /\ CanDial(c)
    /\ LET s1 == [Begin(c) EXCEPT !.client_socket[c] = Some([remote |-> "unconnected"])]
       IN Install(update_chat(s1, c, "Connection error"))

\* ChatApp.accept_connections once accept() returns
AcceptConnections(l, werr) ==
    /\ window[l] = "open"
    /\ accept_thread[l] = "accepting"
    /\ backlog[l] # None
    /\ werr \in (IF eof[l] # "no" THEN {TRUE, FALSE} ELSE {FALSE})
    /\ LET s0 == update_chat(NewConnection(Begin(l), l), l, "Connected to")
           s1 == [s0 EXCEPT !.client_socket[l] = Some([remote |-> backlog[l][1]]),
                            !.is_client[l] = FALSE,
                            !.listener[l] = FreshListener,
                            !.backlog[l] = None,
                            !.accept_thread[l] = "done"]
       IN Install(send_public_key(s1, l, werr))

\* the applications whose connection ends at p
ConnectedTo(p) ==
    {q \in Peers \ {p} :
        /\ client_socket[q] # None
        /\ client_socket[q][1].remote = p
        /\ eof[q] = "no"
        /\ IF backlog[p] = Some(q) THEN TRUE
           ELSE client_socket[p] # None /\ client_socket[p][1].remote = q}

\* ChatApp.disconnect: closes both sockets and destroys the window, which
\* ends the application.  The remote end reads end-of-stream, or a reset
\* when p closes with bytes unread.
Disconnect(p) ==
    /\ window[p] = "open"
    /\ LET s0 == Begin(p)
           s1 == IF s0.client_socket[p] # None
                 THEN update_chat([s0 EXCEPT !.client_socket[p] = None], p,
                                  "Disconnected from client/server.")
                 ELSE s0
           s2 == IF s1.server_socket[p] # None
                 THEN update_chat([s1 EXCEPT !.server_socket[p] = None], p,
                                  "Server socket closed.")
                 ELSE s1
           how == IF wire[p] = <<>> THEN "fin" ELSE "rst"
       IN Install([s2 EXCEPT
              !.window[p] = "destroyed",
              !.wire[p] = <<>>,
              !.backlog[p] = None,
              !.accept_thread[p] = IF @ = "accepting" THEN "done" ELSE @,
              !.listener[p].state = IF @ = "running" THEN "killed" ELSE @,
              !.eof = [q \in Peers |-> IF q \in ConnectedTo(p) THEN how ELSE @[q]]])

----------------------------------------------------------------------------
(* User actions that write, and the receive thread *)

SendPublicKey(p, werr) ==
    /\ window[p] = "open"
    /\ werr \in WriteOutcomes(p)
    /\ Install(send_public_key(Begin(p), p, werr))

SendMessage(p, message, nickname, werr) ==
    /\ window[p] = "open"
    /\ werr \in WriteOutcomes(p)
    /\ Install(send_message(Begin(p), p, message, nickname, werr))

\* send_data applied to any text, while the connection is open
SendData(p, data) ==
    /\ window[p] = "open"
    /\ client_socket[p] # None
    /\ Remote(Cur, p) \in Peers
    /\ eof[p] = "no"
    /\ Len(inbound[Remote(Cur, p)]) < MaxFrames
    /\ Install(send_data(Begin(p), p, data, FALSE))

\* what recv(16) can return of the bytes held for p when the transport
\* hands over at most k of them, k in sizes
ReadSizes(p, sizes) ==
    {IF k <= Len(wire[p]) THEN k ELSE Len(wire[p]) : k \in sizes}

\* One pass of the loop of the listen_for_messages thread of p in which
\* recv(16) returns n >= 1 of the bytes held for p
Recv(p, n, werr) ==
    /\ window[p] = "open"
    /\ listener[p].state = "running"
    /\ werr \in WriteOutcomes(p)
    /\ n >= 1 /\ n <= Len(wire[p])
    /\ eof[p] # "rst"
    /\ Install(listen_for_messages([Begin(p) EXCEPT !.wire[p] = Drop(@, n)],
                                   p, Take(wire[p], n), FALSE, werr))

\* One pass in which recv(16) returns b"": the remote end has closed and
\* every byte was read
RecvEof(p) ==
    /\ window[p] = "open"
    /\ listener[p].state = "running"
    /\ wire[p] = <<>> /\ eof[p] = "fin"
    /\ Install(listen_for_messages(Begin(p), p, <<>>, FALSE, FALSE))

\* One pass in which recv(16) raises: the connection was reset
RecvRaises(p) ==
    /\ window[p] = "open"
    /\ listener[p].state = "running"
    /\ eof[p] = "rst"
    /\ Install(listen_for_messages([Begin(p) EXCEPT !.wire[p] = <<>>],
                                   p, <<>>, TRUE, FALSE))

\* p's connection with the foreign endpoint is open
ForeignLinked(p) ==
    /\ eof[p] = "no"
    /\ client_socket[p] = Some([remote |-> Foreign])

\* the foreign endpoint writes raw bytes to p
ForeignWrite(p, bytes) ==
    /\ window[p] = "open"
    /\ ForeignLinked(p)
    /\ Len(inbound[p]) < MaxFrames
    /\ Install([Cur EXCEPT !.wire[p] = @ \o bytes, !.inbound[p] = Append(@, bytes)])

\* the foreign endpoint closes its end of p's connection: "fin" is an
\* orderly close, "rst" a reset
ForeignClose(p, how) ==
    /\ window[p] = "open"
    /\ ForeignLinked(p)
    /\ Install([Cur EXCEPT !.eof[p] = how])

----------------------------------------------------------------------------
(* Specifications *)

\* ChatApp.__init__ of both applications; no key file yet
Init ==
    /\ key_pair = [p \in Peers |-> None]
    /\ other_public_key = [p \in Peers |-> None]
    /\ client_socket = [p \in Peers |-> None]
    /\ server_socket = [p \in Peers |-> None]
    /\ is_client = [p \in Peers |-> FALSE]
    /\ window = [p \in Peers |-> "open"]
    /\ stored_keys = [p \in Peers |-> None]
    /\ accept_thread = [p \in Peers |-> "none"]
    /\ backlog = [p \in Peers |-> None]
    /\ wire = [p \in Peers |-> <<>>]
    /\ eof = [p \in Peers |-> "no"]
    /\ listener = [p \in Peers |-> NoListener]
    /\ chat = [p \in Peers |-> <<>>]
    /\ out = [p \in Peers |-> <<>>]
    /\ announced = [p \in Peers |-> {}]
    /\ inbound = [p \in Peers |-> <<>>]
    /\ dispatched = [p \in Peers |-> <<>>]
    /\ rsa = NewRsa
    /\ threads = IdleThreads

Texts == {<<65>>}
Nicknames == {<<>>, <<78>>}

\* The key pair of the foreign endpoint, and the frames it writes when it
\* follows the protocol towards an application holding the first key pair of
\* KeyPairs: its public key, an envelope it signed, the same envelope with
\* another signature
ForeignKey == [N |-> 1517, E |-> 65537, D |-> 233]
FirstPublicKey == [N |-> 3233, E |-> 65537]
ForeignEnvelope(signature) ==
    JsonDumpsEnvelope(<<88>>, encrypt(<<72, 105>>, FirstPublicKey), signature)
ProtocolFrames ==
    {FrameOf(KeyMessage(ForeignKey.N, ForeignKey.E)),
     FrameOf(ForeignEnvelope(sign(ForeignKey, <<72, 105>>))),
     FrameOf(ForeignEnvelope(sign(ForeignKey, <<72, 105>>) + 1))}

\* recv(16) in a session returns what is there, up to the buffer's length
SessionReads == {recv_bufsize}

\* The session of one application, "A", that dials the foreign endpoint, as
\* often as it likes
Next ==
    \/ \E kp \in KeyPairs : GenerateNewKeys("A", kp)
    \/ \E kp \in KeyPairs : LoadStoredKeys("A", kp)
    \/ ConnectToServer("A", Foreign)
    \/ ConnectFails("A")
    \/ \E werr \in BOOLEAN : SendPublicKey("A", werr)
    \/ \E m \in Texts, n \in Nicknames, werr \in BOOLEAN : SendMessage("A", m, n, werr)
    \/ \E n \in ReadSizes("A", SessionReads), werr \in BOOLEAN : Recv("A", n, werr)
    \/ RecvEof("A")
    \/ RecvRaises("A")
    \/ \E f \in ProtocolFrames : ForeignWrite("A", f)
    \/ \E how \in {"fin", "rst"} : ForeignClose("A", how)
    \/ Disconnect("A")

Spec == Init /\ [][Next]_vars

----------------------------------------------------------------------------
(* The frame codec alone: "B" hosts, "A" dials, neither holds keys, "B"    *)
(* writes frames with send_data and the receive loop of "A" reads them in  *)
(* reads of any size from 1 to 16 bytes.                                   *)

\* the bodies written: "", "Hi" and "KEYS:3233,17"
Bodies ==
    {<<>>, <<72, 105>>, <<75, 69, 89, 83, 58, 51, 50, 51, 51, 44, 49, 55>>}

NextFrame ==
    \/ StartServer("B", TRUE)
    \/ ConnectToServer("A", "B")
    \/ AcceptConnections("B", FALSE)
    \/ \E data \in Bodies : SendData("B", data)
    \/ \E n \in ReadSizes("A", 1..recv_bufsize) : Recv("A", n, FALSE)

SpecFrame == Init /\ [][NextFrame]_vars

\* C1: frame round trip under arbitrary chunking.  When one frame has been
\* written towards p, the receive loop of p has dispatched nothing or
\* exactly the body written, and once every byte of the frame has been read
\* it has dispatched exactly the body written, whatever the sizes of the
\* reads.
C1_FrameRoundTrip ==
    \A p \in Peers :
        Len(inbound[p]) = 1 =>
            /\ dispatched[p] \in {<<>>, inbound[p]}
            /\ wire[p] = <<>> => dispatched[p] = inbound[p]

\* no read can end inside the digits of the header of a frame of this body
OneDigitLength(data) == Len(Utf8Encode(data)) < 10

\* C2: back-to-back frames.  When several frames were written towards p and
\* every byte of them has been read, the receive loop of p has dispatched
\* every body once, in the order written; stated for bodies whose length is
\* one digit, so that only the boundary between frames is at stake.
C2_BackToBackFrames ==
    \A p \in Peers :
        (/\ Len(inbound[p]) >= 2
         /\ \A i \in 1..Len(inbound[p]) : OneDigitLength(inbound[p][i])
         /\ wire[p] = <<>>)
        => dispatched[p] = inbound[p]

\* C3: frame atomicity.  Every string passed to handle_received_message of
\* p is the complete body of a frame written towards p.
C3_FrameAtomicity ==
    \A p \in Peers :
        \A i \in 1..Len(dispatched[p]) :
            \E j \in 1..Len(inbound[p]) : dispatched[p][i] = inbound[p][j]

----------------------------------------------------------------------------
(* The handshake of two applications: "A" hosts, "B" dials, each holds the *)
(* key pair its storedKeys.json gave it.                                   *)

\* the key files of the two applications (load_stored_keys takes N, E and D
\* as the file has them)
HandshakeKeys ==
    [A |-> [N |-> 3233, E |-> 17, D |-> 413], B |-> [N |-> 3127, E |-> 13, D |-> 1]]

PublicOf(kp) == [N |-> kp.N, E |-> kp.E]

\* both applications after load_stored_keys
InitHandshake ==
    /\ key_pair = [p \in Peers |-> Some(HandshakeKeys[p])]
    /\ stored_keys = [p \in Peers |-> Some(HandshakeKeys[p])]
    /\ other_public_key = [p \in Peers |-> None]
    /\ client_socket = [p \in Peers |-> None]
    /\ server_socket = [p \in Peers |-> None]
    /\ is_client = [p \in Peers |-> FALSE]
    /\ window = [p \in Peers |-> "open"]
    /\ accept_thread = [p \in Peers |-> "none"]
    /\ backlog = [p \in Peers |-> None]
    /\ wire = [p \in Peers |-> <<>>]
    /\ eof = [p \in Peers |-> "no"]
    /\ listener = [p \in Peers |-> NoListener]
    /\ chat = [p \in Peers |-> <<>>]
    /\ out = [p \in Peers |-> <<>>]
    /\ announced = [p \in Peers |-> {}]
    /\ inbound = [p \in Peers |-> <<>>]
    /\ dispatched = [p \in Peers |-> <<>>]
    /\ rsa = NewRsa
    /\ threads = IdleThreads

NextHandshake ==
    \/ StartServer("A", TRUE)
    \/ ConnectToServer("B", "A")
    \/ AcceptConnections("A", FALSE)
    \/ \E n \in ReadSizes("A", 1..recv_bufsize) : Recv("A", n, FALSE)
    \/ \E n \in ReadSizes("B", 1..recv_bufsize) : Recv("B", n, FALSE)

SpecHandshake == InitHandshake /\ [][NextHandshake]_vars

\* p is connected and its receive thread was started
Connected(p) == client_socket[p] # None /\ listener[p].state # "none"

\* the receive thread of p has no pass left to make: it has exited, or it
\* waits in recv for bytes
Quiet(p) == listener[p].state # "running" \/ wire[p] = <<>>

\* C4: handshake completion.  Once the listener "A" and the initiator "B",
\* each holding a key pair, are connected and neither receive thread has a
\* pass left to make, both hold the public key of the other: "A" holds
\* (3127, 13) and "B" holds (3233, 17).
C4_HandshakeCompletes ==
    (Connected("A") /\ Connected("B") /\ Quiet("A") /\ Quiet("B"))
        => (/\ other_public_key["A"] = Some(PublicOf(HandshakeKeys["B"]))
            /\ other_public_key["B"] = Some(PublicOf(HandshakeKeys["A"])))

----------------------------------------------------------------------------
(* Claims about the session of "A" with the foreign endpoint (Spec)        *)

KeysPrefix == <<75, 69, 89, 83, 58>>

\* the data is an envelope, not a KEYS message
IsEnvelope(data) == ~StartsWith(data, KeysPrefix)

\* the indices of the lines of kind k in the output of the latest operation of p
LinesOf(lines, kinds) == {i \in 1..Len(lines) : lines[i].kind \in kinds}

\* the signature an envelope carries
SignatureOf(message) ==
    DictGet(JsonLoads(message).v.v, <<115, 105, 103, 110, 97, 116, 117, 114, 101>>).v.v

\* C5: envelope gating.  In every step in which handle_received_message
\* processes a message for p: a line "<nickname>: <plaintext>" is displayed
\* only if p held a remote public key before the step and verify of the
\* displayed plaintext and the envelope's signature against that key is
\* true; and if the message is an envelope and p held no remote public key,
\* no plaintext is displayed and an error line is.
C5_EnvelopeGating ==
    [][\A p \in Peers :
          Len(dispatched'[p]) = Len(dispatched[p]) + 1 =>
              LET message == dispatched'[p][Len(dispatched'[p])]
                  delivered == LinesOf(chat'[p], {"chat"})
                  errors == LinesOf(chat'[p], {"Message handling error",
                                               "JSON decoding error"})
              IN /\ delivered # {} =>
                        /\ other_public_key[p] # None
                        /\ \A i \in delivered : \E signature \in {SignatureOf(message)} :
                               verify(chat'[p][i].text, signature, other_public_key[p][1])
                 /\ (IsEnvelope(message) /\ other_public_key[p] = None) =>
                        (delivered = {} /\ errors # {})]_vars

\* C5 happens: "A" displays the plaintext of an envelope
C5_Delivered ==
    /\ other_public_key["A"] # None
    /\ LinesOf(chat["A"], {"chat"}) # {}

NotReady == Line("Encryption keys not exchanged.", JStr(<<>>), <<>>)

\* C6: send gating.  A send request of p made while p holds no key pair or
\* no remote public key hands nothing to the transport and reports
\* "Encryption keys not exchanged."; and a step in which p hands an
\* envelope to the transport starts in a state where p holds both.
C6_SendGating ==
    [][\A p \in Peers :
          /\ (key_pair[p] = None \/ other_public_key[p] = None) =>
                 \A m \in Texts, n \in Nicknames, werr \in BOOLEAN :
                     SendMessage(p, m, n, werr) =>
                         (out'[p] = <<>> /\ chat'[p] = <<NotReady>>)
          /\ (out'[p] # out[p] /\ \E i \in 1..Len(out'[p]) : IsEnvelope(out'[p][i])) =>
                 (key_pair[p] # None /\ other_public_key[p] # None)]_vars

\* C6 happens: "A", connected and holding a key pair but no remote public
\* key, was asked to send
C6_Refused ==
    /\ Connected("A")
    /\ key_pair["A"] # None
    /\ other_public_key["A"] = None
    /\ chat["A"] = <<NotReady>>
    /\ out["A"] = <<>>

\* the well-formed KEYS messages among the messages handled
KeysHandled(p) ==
    {i \in 1..Len(dispatched[p]) :
        StartsWith(dispatched[p][i], KeysPrefix) /\ ParseKeys(dispatched[p][i]).ok}

\* C7: fresh session per connection.  On a connection of p on which no
\* handshake message was received yet, p holds no remote public key.
C7_FreshSession ==
    \A p \in Peers :
        (Connected(p) /\ KeysHandled(p) = {}) => other_public_key[p] = None

\* C8: handshake precedes envelopes.  Every envelope p hands to the
\* transport is signed with a key whose public part p wrote in a KEYS frame
\* earlier on the same connection.
C8_HandshakePrecedesEnvelopes ==
    \A p \in Peers :
        \A i \in 1..Len(out[p]) :
            IsEnvelope(out[p][i]) =>
                /\ key_pair[p] # None
                /\ PublicOf(key_pair[p][1]) \in announced[p]

----------------------------------------------------------------------------
(* The receive loop of "A" on raw bytes: "A" dials the foreign endpoint,   *)
(* which writes frames with malformed bodies, a well-formed frame, or the  *)
(* beginning of a frame, and closes or resets the connection.              *)

\* "1         " and one byte that is no UTF-8
NotUtf8Frame == Ljust(DecStr(1), header_size) \o <<255>>

RawWrites ==
    {FrameOf(<<75, 69, 89, 83, 58, 120, 44, 53>>),
     FrameOf(<<75, 69, 89, 83, 58, 49, 50>>),
     FrameOf(<<123>>),
     FrameOf(<<123, 125>>),
     FrameOf(<<123, 34, 109, 101, 115, 115, 97, 103, 101, 34, 58, 32, 53, 44, 32, 34, 115,
               105, 103, 110, 97, 116, 117, 114, 101, 34, 58, 32, 49, 125>>),
     NotUtf8Frame,
     FrameOf(KeyMessage(ForeignKey.N, ForeignKey.E)),
     Take(FrameOf(KeyMessage(ForeignKey.N, ForeignKey.E)), 12)}

RawReads == {header_size, recv_bufsize}

NextRaw ==
    \/ ConnectToServer("A", Foreign)
    \/ \E b \in RawWrites : ForeignWrite("A", b)
    \/ \E how \in {"fin", "rst"} : ForeignClose("A", how)
    \/ \E n \in ReadSizes("A", RawReads) : Recv("A", n, FALSE)
    \/ RecvEof("A")
    \/ RecvRaises("A")

SpecRaw == Init /\ [][NextRaw]_vars

\* the bytes are one frame: a header and as many bytes as it says
IsWholeFrame(b) ==
    /\ Len(b) >= header_size
    /\ PyInt(Take(b, header_size)).ok
    /\ PyInt(Take(b, header_size)).v = Len(b) - header_size

\* C9: the receive loop survives malformed input.  While the transport of p
\* is open, the receive loop of p has not ended on a complete frame: if it
\* has exited, what it had reassembled is not one whole frame.
C9_SurvivesMalformedFrames ==
    \A p \in Peers :
        (listener[p].state = "exited" /\ eof[p] = "no")
            => ~IsWholeFrame(listener[p].full_message)

\* C10: the receive task terminates on transport closure.  While the
\* receive loop of p runs on a transport the remote end has closed, with
\* every byte read, the pass in which recv returns no bytes can end the
\* loop: the loop is never left running passes that cannot exit.
C10_ReceiveTaskTerminates ==
    \A p \in Peers :
        (/\ window[p] = "open"
         /\ listener[p].state = "running"
         /\ eof[p] = "fin"
         /\ wire[p] = <<>>)
        => ENABLED (RecvEof(p) /\ listener'[p].state = "exited")

----------------------------------------------------------------------------
(* The listener "A" and the initiator "B", each holding a key pair, where  *)
(* "B" announces its key again with the send-key button (SpecReply)        *)

NextReply ==
    \/ StartServer("A", TRUE)
    \/ ConnectToServer("B", "A")
    \/ AcceptConnections("A", FALSE)
    \/ (Len(inbound["A"]) < MaxFrames /\ SendPublicKey("B", FALSE))
    \/ \E n \in ReadSizes("A", RawReads) : Recv("A", n, FALSE)
    \/ \E n \in ReadSizes("B", RawReads) : Recv("B", n, FALSE)

SpecReply == InitHandshake /\ [][NextReply]_vars

\* the message handle_received_message was called with in this step
Latest(p) == dispatched'[p][Len(dispatched'[p])]

\* this step is a call of handle_received_message by p
Handles(p) == Len(dispatched'[p]) = Len(dispatched[p]) + 1

\* C11: handshake reply rule.  In every step in which p handles a
\* well-formed KEYS message, p writes a KEYS message of its own if and only
\* if p accepted the connection and has handled no well-formed KEYS message
\* on it before.
C11_HandshakeReplyRule ==
    [][\A p \in Peers :
          (Handles(p) /\ StartsWith(Latest(p), KeysPrefix) /\ ParseKeys(Latest(p)).ok)
              => ((out'[p] # <<>>) <=> (~is_client[p] /\ KeysHandled(p) = {}))]_vars

----------------------------------------------------------------------------
(* The application "A" holding a 16-bit key pair, with a foreign endpoint  *)
(* that sends keys and envelopes (SpecEnvelope)                            *)

\* what generate_keys stores at key_length 16 for p = 251, q = 241
WideKey == [N |-> 60491, E |-> 65537, D |-> 3473]

\* a second key the foreign endpoint announces
SecondForeignKey == [N |-> 2021, E |-> 65537]

\* an envelope of the foreign endpoint for the holder of WideKey
WideEnvelope(encrypted_message, signature) ==
    FrameOf(JsonDumpsEnvelope(<<88>>, encrypted_message, signature))

\* The frames of the foreign endpoint: two keys, a KEYS message whose E is
\* no integer, the envelope of "Hi" it signed, the same with another
\* signature, and an envelope whose one integer decrypts to the surrogate
\* code point 0xD800
EnvelopeFrames ==
    {FrameOf(KeyMessage(ForeignKey.N, ForeignKey.E)),
     FrameOf(KeyMessage(SecondForeignKey.N, SecondForeignKey.E)),
     FrameOf(<<75, 69, 89, 83, 58, 55, 44, 120>>),
     WideEnvelope(encrypt(<<72, 105>>, PublicOf(WideKey)), sign(ForeignKey, <<72, 105>>)),
     WideEnvelope(encrypt(<<72, 105>>, PublicOf(WideKey)), sign(ForeignKey, <<72, 105>>) + 1),
     WideEnvelope(encrypt(<<55296>>, PublicOf(WideKey)), 1)}

\* "A" after load_stored_keys found WideKey
InitEnvelope ==
    /\ key_pair = [p \in Peers |-> IF p = "A" THEN Some(WideKey) ELSE None]
    /\ stored_keys = [p \in Peers |-> IF p = "A" THEN Some(WideKey) ELSE None]
    /\ other_public_key = [p \in Peers |-> None]
    /\ client_socket = [p \in Peers |-> None]
    /\ server_socket = [p \in Peers |-> None]
    /\ is_client = [p \in Peers |-> FALSE]
    /\ window = [p \in Peers |-> "open"]
    /\ accept_thread = [p \in Peers |-> "none"]
    /\ backlog = [p \in Peers |-> None]
    /\ wire = [p \in Peers |-> <<>>]
    /\ eof = [p \in Peers |-> "no"]
    /\ listener = [p \in Peers |-> NoListener]
    /\ chat = [p \in Peers |-> <<>>]
    /\ out = [p \in Peers |-> <<>>]
    /\ announced = [p \in Peers |-> {}]
    /\ inbound = [p \in Peers |-> <<>>]
    /\ dispatched = [p \in Peers |-> <<>>]
    /\ rsa = NewRsa
    /\ threads = IdleThreads

NextEnvelope ==
    \/ ConnectToServer("A", Foreign)
    \/ \E f \in EnvelopeFrames : ForeignWrite("A", f)
    \/ \E n \in ReadSizes("A", SessionReads) : Recv("A", n, FALSE)
    \/ ForeignClose("A", "fin")
    \/ RecvEof("A")

SpecEnvelope == InitEnvelope /\ [][NextEnvelope]_vars

\* the fields of the parsed body are those of an envelope: a list of
\* integers and an integer
EnvelopeFields(encrypted_message, signature) ==
    /\ encrypted_message.found /\ signature.found
    /\ encrypted_message.v.t = "list"
    /\ \A i \in 1..Len(encrypted_message.v.v) : encrypted_message.v.v[i].t = "int"
    /\ signature.v.t = "int"

EnvelopeData(received_data) ==
    /\ received_data.ok
    /\ received_data.v.t = "dict"
    /\ EnvelopeFields(DictGet(received_data.v.v, <<109, 101, 115, 115, 97, 103, 101>>),
                      DictGet(received_data.v.v, <<115, 105, 103, 110, 97, 116, 117, 114, 101>>))

\* the message is an envelope: {nickname, message: [integer...], signature: integer}
IsWellFormedEnvelope(message) == IsEnvelope(message) /\ EnvelopeData(JsonLoads(message))

\* the integers of the message field
CiphertextOf(message) ==
    Items(DictGet(JsonLoads(message).v.v, <<109, 101, 115, 115, 97, 103, 101>>).v).v

\* what p's private key makes of the envelope
PlaintextOf(p, message) ==
    decrypt(key_pair[p][1],
            [i \in 1..Len(CiphertextOf(message)) |-> CiphertextOf(message)[i].v])

\* this step is p handling an envelope while it holds both keys
HandlesEnvelope(p) ==
    /\ Handles(p)
    /\ IsWellFormedEnvelope(Latest(p))
    /\ key_pair[p] # None
    /\ other_public_key[p] # None

\* the one line p displays in this step, and the keys p holds, for the
\* plaintext text
OutcomeFor(p, text) ==
    /\ Len(chat'[p]) = 1
    /\ IF Encodable(text)
       THEN IF \E signature \in {SignatureOf(Latest(p))} :
                   verify(text, signature, other_public_key[p][1])
            THEN chat'[p][1].kind = "chat" /\ chat'[p][1].text = text
            ELSE chat'[p][1].kind = "Signature verification failed." /\ chat'[p][1].text = <<>>
       ELSE chat'[p][1].kind = "Message handling error" /\ chat'[p][1].text = <<>>
    /\ key_pair'[p] = key_pair[p]
    /\ other_public_key'[p] = other_public_key[p]

----------------------------------------------------------------------------
(* The RSA class by itself: generate_keys step by step, and encrypt,       *)
(* decrypt, sign and verify applied to the key pair it stored (SpecKeys)   *)

\* the variables of the applications
appvars ==
    <<key_pair, other_public_key, client_socket, server_socket, is_client, window,
      stored_keys, accept_thread, backlog, wire, eof, listener, chat, out,
      announced, inbound, dispatched>>

\* RSA.gcd
RECURSIVE gcd(_, _)
gcd(a, b) == IF b # 0 THEN gcd(b, a % b) ELSE a

\* abs()
Abs(n) == IF n < 0 THEN 0 - n ELSE n

\* RSA.lcm.  lcmProduct is the variant without the division.
lcmProduct(a, b) == Abs(a * b)

lcm(a, b) == Abs(a * b) \div gcd(a, b)

\* the while loop of RSA.xgcd
RECURSIVE XgcdLoop(_, _, _, _, _, _)
XgcdLoop(a, b, prevx, x, prevy, y) ==
    IF b # 0
    THEN XgcdLoop(b, a % b, x, prevx - ((a \div b) * x), y, prevy - ((a \div b) * y))
    ELSE [g |-> a, x |-> prevx, y |-> prevy]

\* RSA.xgcd
xgcd(a, b) == XgcdLoop(a, b, 1, 0, 0, 1)

\* RSA.modinv for the result r of xgcd; ok = FALSE: it raises
ModinvOf(r, m) == IF r.g # 1 THEN [ok |-> FALSE, v |-> 0] ELSE [ok |-> TRUE, v |-> r.x % m]

modinv(a, m) == ModinvOf(xgcd(a, m), m)

\* the first while loop of is_prime: n - 1 = 2^s * r with r odd
RECURSIVE Split(_, _)
Split(s, r) == IF r % 2 = 0 THEN Split(s + 1, r \div 2) ELSE [s |-> s, r |-> r]

\* the inner for loop of is_prime with its else: TRUE when it breaks
RECURSIVE Squarings(_, _, _)
Squarings(x, k, n) ==
    IF k = 0 THEN FALSE
    ELSE IF ModExp(x, 2, n) = n - 1 THEN TRUE
    ELSE Squarings(ModExp(x, 2, n), k - 1, n)

\* one pass of the outer for loop of is_prime does not return False.
\* RoundFromOne is the variant whose test is x != 1.
RoundFromOne(x, d, n) == IF x = 1 THEN TRUE ELSE Squarings(x, d.s - 1, n)

RoundFrom(x, d, n) == IF x \in {1, n - 1} THEN TRUE ELSE Squarings(x, d.s - 1, n)
Round(n, a, d) == RoundFrom(ModExp(a, d.r, n), d, n)

\* random.randrange(2, n - 1)
Bases(n) == 2..(n - 2)

\* RSA.is_prime(n) when the k passes draw the bases in drawn
is_prime(n, drawn) ==
    IF n \in {2, 3} THEN TRUE
    ELSE IF n <= 1 \/ n % 2 = 0 THEN FALSE
    ELSE \A a \in drawn : Round(n, a, Split(0, n - 1))

\* What the k = 128 draws of is_prime(n) can be, up to the result: True needs
\* every draw to pass and False one draw to fail, so each result the draws
\* can give is the result of drawing one base every time
Draws(n) == IF Bases(n) = {} THEN {{}} ELSE {{a} : a \in Bases(n)}

\* 2^k
RECURSIVE Pow2(_)
Pow2(k) == IF k = 0 THEN 1 ELSE 2 * Pow2(k - 1)

\* random.getrandbits(length) | (1 << length - 1) | 1, for length >= 1
Candidates(length) ==
    {c \in (Pow2(length - 1))..(Pow2(length) - 1) : c % 2 = 1}

\* the values of key_length, from 0 on
MaxKeyLength == 8
\* how many values of random.randrange(2**16, 2**17) are drawn, from 2**16 on
MaxEDraws == 6
\* the code points of the messages and plaintexts, from 0 on
MaxCodePoint == 40

KeyLengths == 0..MaxKeyLength
EValues == 65536..(65536 + MaxEDraws - 1) \cup {131071}
Messages == {<<c>> : c \in 0..MaxCodePoint} \cup {<<>>, <<65>>, <<72, 105>>}

\* p, q and e of the derivations applied to given values
GivenValues == {<<61, 53, 17>>, <<61, 53, 15>>, <<5, 7, 65537>>, <<11, 13, 65539>>}

\* the state of the RSA object changes to r
SetRsa(r) == rsa' = r /\ UNCHANGED <<appvars, threads>>

Running == rsa.pc \in {"prime_p", "test_p", "prime_q", "test_q", "pick_e"}

\* RSA.generate_keys is called with key_length L
GenerateKeysCall(L) ==
    /\ ~Running
    /\ SetRsa([NewRsa EXCEPT !.pc = "prime_p", !.key_length = L, !.how = "generate_keys",
                             !.key_pair = rsa.key_pair])

\* generate_prime_number(L // 2): 1 << length - 1 raises ValueError at length 0
ShiftRaises ==
    /\ rsa.pc \in {"prime_p", "prime_q"}
    /\ rsa.key_length \div 2 = 0
    /\ SetRsa([rsa EXCEPT !.pc = "raised"])

\* generate_prime_number: the candidate c is drawn
DrawCandidate(c) ==
    /\ rsa.pc \in {"prime_p", "prime_q"}
    /\ rsa.key_length \div 2 >= 1
    /\ c \in Candidates(rsa.key_length \div 2)
    /\ SetRsa([rsa EXCEPT !.cand = c,
                          !.pc = IF rsa.pc = "prime_p" THEN "test_p" ELSE "test_q"])

\* generate_keys after q was returned: the if p != q and what follows it.
\* AfterPrimesAny is the variant without the if.
AfterPrimesAny(r) == [r EXCEPT !.pc = "pick_e"]

AfterPrimes(r) ==
    IF r.p # r.q THEN [r EXCEPT !.pc = "pick_e"] ELSE [r EXCEPT !.pc = "prime_p"]

\* generate_prime_number: is_prime(p) returns, with the bases drawn
IsPrimeReturns(drawn) ==
    /\ rsa.pc \in {"test_p", "test_q"}
    /\ drawn \in Draws(rsa.cand)
    /\ IF is_prime(rsa.cand, drawn)
       THEN IF rsa.pc = "test_p"
            THEN SetRsa([rsa EXCEPT !.p = rsa.cand, !.pc = "prime_q"])
            ELSE SetRsa(AfterPrimes([rsa EXCEPT !.q = rsa.cand]))
       ELSE SetRsa([rsa EXCEPT !.pc = IF rsa.pc = "test_p" THEN "prime_p" ELSE "prime_q"])

\* generate_keys from n = p * q on, with e as drawn or given; d: modinv(e, totient)
StoreKeys(r, e, d) ==
    IF d.ok
    THEN [r EXCEPT !.e = e, !.pc = "returned",
                   !.key_pair = Some([N |-> r.p * r.q, E |-> e, D |-> d.v])]
    ELSE [r EXCEPT !.e = e, !.pc = "raised"]

\* generate_keys: one pass of the inner while loop, e is drawn
PickE(e) ==
    /\ rsa.pc = "pick_e"
    /\ IF gcd(e, lcm(rsa.p - 1, rsa.q - 1)) = 1
       THEN SetRsa(StoreKeys(rsa, e, modinv(e, lcm(rsa.p - 1, rsa.q - 1))))
       ELSE SetRsa([rsa EXCEPT !.e = e])

\* the derivation of generate_keys (n, totient, d, key_pair) applied to
\* given p, q and e
DeriveKeys(p, q, e) ==
    /\ ~Running
    /\ SetRsa(StoreKeys([NewRsa EXCEPT !.p = p, !.q = q, !.how = "derivation",
                                       !.key_pair = rsa.key_pair],
                        e, modinv(e, lcm(p - 1, q - 1))))

HasKeys == ~Running /\ rsa.key_pair # None

Result(op, message, ints, ok) == [op |-> op, message |-> message, ints |-> ints, ok |-> ok]

\* RSA.sign(message)
Sign(message) ==
    /\ HasKeys
    /\ SetRsa([rsa EXCEPT !.last = Result("sign", message, <<sign(rsa.key_pair[1], message)>>, TRUE)])

\* RSA.verify of the signature just made, against the public key of the pair
Verify ==
    /\ HasKeys
    /\ rsa.last.op = "sign"
    /\ SetRsa([rsa EXCEPT !.last =
           Result("verify", rsa.last.message, rsa.last.ints,
                  verify(rsa.last.message, rsa.last.ints[1], PublicOf(rsa.key_pair[1])))])

\* RSA.encrypt(message, public key of the pair)
Encrypt(message) ==
    /\ HasKeys
    /\ SetRsa([rsa EXCEPT !.last =
           Result("encrypt", message, encrypt(message, PublicOf(rsa.key_pair[1])), TRUE)])

\* RSA.decrypt of the ciphertext just made
Decrypt ==
    /\ HasKeys
    /\ rsa.last.op = "encrypt"
    /\ SetRsa([rsa EXCEPT !.last =
           Result("decrypt", rsa.last.message, decrypt(rsa.key_pair[1], rsa.last.ints),
                  \A i \in 1..Len(rsa.last.ints) :
                      IsChr(ModExp(rsa.last.ints[i], rsa.key_pair[1].D, rsa.key_pair[1].N)))])

\* the steps of generate_keys, called with a key_length of lengths
Keygen(lengths) ==
    \/ \E L \in lengths : GenerateKeysCall(L)
    \/ ShiftRaises
    \/ \E c \in Candidates(SetMax({1, rsa.key_length \div 2})) : DrawCandidate(c)
    \/ \E drawn \in Draws(rsa.cand) : IsPrimeReturns(drawn)
    \/ \E e \in EValues : PickE(e)

NextKeygen == Keygen(KeyLengths)

NextKeys ==
    \/ NextKeygen
    \/ \E g \in GivenValues : DeriveKeys(g[1], g[2], g[3])
    \/ \E m \in Messages : Sign(m)
    \/ Verify
    \/ \E m \in Messages : Encrypt(m)
    \/ Decrypt

SpecKeys == Init /\ [][NextKeys]_vars

\* the call that stored the key pair of the RSA object is over, and p, q and
\* e are its locals
Stored(how) == rsa.pc = "returned" /\ rsa.how = how

\* C13: sign/verify round trip.  Whenever verify was applied to a message and
\* the signature sign made of it, under a key pair generate_keys stored,
\* verify returned True.
C13_SignVerifyRoundTrip ==
    (Stored("generate_keys") /\ rsa.last.op = "verify") => rsa.last.ok

\* n is a prime number
TruePrime(n) == n > 1 /\ \A d \in 2..(n - 1) : n % d # 0

\* the key pair of the RSA object is N = p*q for distinct primes p and q, E
\* coprime to lcm(p-1, q-1) and D = modinv(E, lcm(p-1, q-1))
KeyOfPrimes ==
    /\ rsa.pc = "returned"
    /\ TruePrime(rsa.p) /\ TruePrime(rsa.q) /\ rsa.p # rsa.q
    /\ gcd(rsa.e, lcm(rsa.p - 1, rsa.q - 1)) = 1
    /\ rsa.key_pair = Some([N |-> rsa.p * rsa.q, E |-> rsa.e,
                            D |-> modinv(rsa.e, lcm(rsa.p - 1, rsa.q - 1)).v])

\* every code point of the plaintext is below N
BelowN(message) == \A i \in 1..Len(message) : message[i] < rsa.key_pair[1].N

\* C14: encrypt/decrypt round trip.  Under a key pair made of distinct primes
\* and for a plaintext whose code points are below N: the ciphertext encrypt
\* returned has one integer per character, the power of that character, in
\* order; and decrypt of it returned the plaintext.
C14_EncryptDecryptRoundTrip ==
    (KeyOfPrimes /\ BelowN(rsa.last.message)) =>
        /\ rsa.last.op = "encrypt" =>
               /\ Len(rsa.last.ints) = Len(rsa.last.message)
               /\ \A i \in 1..Len(rsa.last.message) :
                      rsa.last.ints[i] = ModExp(rsa.last.message[i], rsa.e, rsa.p * rsa.q)
        /\ rsa.last.op = "decrypt" => (rsa.last.ok /\ rsa.last.ints = rsa.last.message)

\* C14 happens: "Hi" was encrypted and decrypted under a generated key pair
C14_RoundTripDone ==
    /\ KeyOfPrimes /\ rsa.how = "generate_keys"
    /\ rsa.last.op = "decrypt"
    /\ rsa.last.message = <<72, 105>>
    /\ BelowN(rsa.last.message)

\* the derivation was applied to p = 61, q = 53 and E = 17, and returned
WorkedExample == Stored("derivation") /\ rsa.p = 61 /\ rsa.q = 53 /\ rsa.e = 17

\* what the example says of encrypt and decrypt of code point 65
ExampleCipher ==
    /\ (rsa.last.op = "encrypt" /\ rsa.last.message = <<65>>) => rsa.last.ints = <<2790>>
    /\ (rsa.last.op = "decrypt" /\ rsa.last.message = <<65>>) => rsa.last.ints = <<65>>
    /\ decrypt([N |-> 3233, E |-> 17, D |-> 2753], <<2790>>) = <<65>>

\* C15 as stated: the derivation yields D = 2753.
C15_WorkedExampleAsStated ==
    WorkedExample =>
        (rsa.key_pair = Some([N |-> 3233, E |-> 17, D |-> 2753]) /\ ExampleCipher)

\* C15: worked example.  With p = 61, q = 53 and E = 17 the derivation of
\* generate_keys yields N = 3233 and D = 413, the inverse of 17 modulo
\* lcm(60, 52) = 780; encrypting code point 65 gives 2790, and decrypting
\* 2790 gives 65, with D = 413 as with D = 2753.
C15_WorkedExample ==
    WorkedExample =>
        (rsa.key_pair = Some([N |-> 3233, E |-> 17, D |-> 413]) /\ ExampleCipher)

\* C15 happens: under the key pair of the example, 65 was encrypted and decrypted
C15_ExampleDecrypted ==
    WorkedExample /\ rsa.last.op = "decrypt" /\ rsa.last.message = <<65>>

\* C19: key generation postcondition.  A key pair generate_keys stored has
\* N = p*q for p # q that is_prime can accept, 2^16 <= E < 2^17 coprime to
\* lcm(p-1, q-1), and 0 <= D < lcm(p-1, q-1) with (E*D) mod lcm(p-1, q-1) = 1;
\* the derivation raises exactly when gcd(e, lcm(p-1, q-1)) # 1, and
\* generate_keys raises only where the bit length is 0.
C19_KeyGenerationPostcondition ==
    /\ Stored("generate_keys") =>
           /\ rsa.key_pair # None
           /\ rsa.key_pair[1].N = rsa.p * rsa.q /\ rsa.key_pair[1].E = rsa.e
           /\ rsa.p # rsa.q
           /\ \E drawn \in Draws(rsa.p) : is_prime(rsa.p, drawn)
           /\ \E drawn \in Draws(rsa.q) : is_prime(rsa.q, drawn)
           /\ rsa.e >= 65536 /\ rsa.e < 131072
           /\ gcd(rsa.e, lcm(rsa.p - 1, rsa.q - 1)) = 1
           /\ rsa.key_pair[1].D >= 0 /\ rsa.key_pair[1].D < lcm(rsa.p - 1, rsa.q - 1)
           /\ (rsa.e * rsa.key_pair[1].D) % lcm(rsa.p - 1, rsa.q - 1) = 1
    /\ (rsa.how = "derivation") =>
           (rsa.pc = "raised" <=> gcd(rsa.e, lcm(rsa.p - 1, rsa.q - 1)) # 1)
    /\ (rsa.how = "generate_keys" /\ rsa.pc = "raised") => rsa.key_length \div 2 = 0

\* C19 happens: generate_keys stored a key pair
C19_KeysStored == Stored("generate_keys") /\ rsa.key_pair # None

\* ---------------------------------------------------------------------
\* Key generation on its own, with the scheduling the code has: a call that
\* is running keeps running, and every value a random draw can give is
\* given again and again where the draw is repeated for ever.
\* ---------------------------------------------------------------------

\* the values of key_length of the fair runs, from 0 on: bit lengths 0 to 3
MaxShortKeyLength == 6
ShortKeyLengths == 0..MaxShortKeyLength

\* the values generate_prime_number can draw for these key lengths
AllCandidates == UNION {Candidates(L \div 2) : L \in {L \in ShortKeyLengths : L \div 2 >= 1}}

\* the draws of bases is_prime can make for these candidates
AllDraws == UNION {Draws(c) : c \in AllCandidates}

NextShortKeygen == Keygen(ShortKeyLengths)

\* generate_prime_number draws for q a candidate other than p
DrawOther ==
    \E c \in AllCandidates : rsa.pc = "prime_q" /\ c # rsa.p /\ DrawCandidate(c)

FairKeygen ==
    /\ WF_vars(ShiftRaises)
    /\ \A c \in AllCandidates : SF_vars(DrawCandidate(c))
    /\ SF_vars(DrawOther)
    /\ \A drawn \in AllDraws : SF_vars(IsPrimeReturns(drawn))
    /\ \A e \in EValues : SF_vars(PickE(e))

SpecKeygen == Init /\ [][NextShortKeygen]_vars /\ FairKeygen

\* C20: key generation retry loops are bounded.  Every call of generate_keys
\* eventually returns or raises, for every key_length.
C20_KeyGenerationTerminates == Running ~> ~Running

\* ---------------------------------------------------------------------
\* The tasks of one application, "A", step by step.  "A" hosts; the foreign
\* endpoint has connected, and accept_connections has started the
\* listen_for_messages thread and is about to call send_public_key.  The Tk
\* main loop runs the button handlers meanwhile.  A step is what a task does
\* between two points where the interpreter or the kernel can switch to
\* another task: one read of self.rsa.key_pair, one store to it, one
\* socket.send of socket.sendall.
\* ---------------------------------------------------------------------

\* how many operations the UI task and the receive task start
MaxTaskCalls == 1

\* two key pairs generate_keys can store, with different N, E and D
ThreadKeyPairs ==
    {[N |-> 3233, E |-> 65537, D |-> 413], [N |-> 2021, E |-> 65539, D |-> 577]}

\* what the foreign endpoint sent for the first of them: "Hi", signed
ThreadCiphertext == encrypt(<<72, 105>>, [N |-> 3233, E |-> 65537])
ThreadSignature == sign(ForeignKey, <<72, 105>>)

InitThreads ==
    /\ key_pair = [p \in Peers |-> IF p = "A" THEN Some([N |-> 3233, E |-> 65537, D |-> 413])
                                   ELSE None]
    /\ stored_keys = key_pair
    /\ other_public_key = [p \in Peers |-> None]
    /\ client_socket = [p \in Peers |-> IF p = "A" THEN Some([remote |-> Foreign]) ELSE None]
    /\ server_socket = [p \in Peers |-> IF p = "A" THEN Some("listening") ELSE None]
    /\ is_client = [p \in Peers |-> FALSE]
    /\ window = [p \in Peers |-> "open"]
    /\ accept_thread = [p \in Peers |-> IF p = "A" THEN "running" ELSE "none"]
    /\ backlog = [p \in Peers |-> None]
    /\ wire = [p \in Peers |-> <<>>]
    /\ eof = [p \in Peers |-> "no"]
    /\ listener = [p \in Peers |-> IF p = "A" THEN FreshListener ELSE NoListener]
    /\ chat = [p \in Peers |-> <<>>]
    /\ out = [p \in Peers |-> <<>>]
    /\ announced = [p \in Peers |-> {}]
    /\ inbound = [p \in Peers |-> <<>>]
    /\ dispatched = [p \in Peers |-> <<>>]
    /\ rsa = NewRsa
    /\ threads = [IdleThreads EXCEPT !.task["accept"].pc = "call"]

Task(t) == threads.task[t]

\* a step of task t that changes nothing but the task
TaskStep(t, task) == threads' = [threads EXCEPT !.task[t] = task] /\ UNCHANGED <<appvars, rsa>>

\* task t returns from its operation: its locals are gone; the thread of
\* accept_connections ends
Returned(t) ==
    [threads EXCEPT !.task[t] = [IdleTask EXCEPT !.pc = IF t = "accept" THEN "done" ELSE "idle",
                                                 !.calls = Task(t).calls]]

\* task t may start an operation
MayStart(t) ==
    /\ Task(t).pc = "idle"
    /\ t \in {"ui", "recv"}
    /\ Task(t).calls < MaxTaskCalls

\* generate_new_keys from the button: generate_keys stores kp in one
\* assignment to self.key_pair
UiGenerateNewKeys(kp) ==
    /\ MayStart("ui")
    /\ InstallApp(generate_new_keys(Begin("A"), "A", kp))
    /\ threads' = [threads EXCEPT !.task["ui"].calls = @ + 1]
    /\ UNCHANGED rsa

\* load_stored_keys from the button
UiLoadStoredKeys(kp) ==
    /\ MayStart("ui")
    /\ InstallApp(load_stored_keys(Begin("A"), "A", kp))
    /\ threads' = [threads EXCEPT !.task["ui"].calls = @ + 1]
    /\ UNCHANGED rsa

\* send_public_key is called: by accept_connections, by the button, or by
\* handle_received_message for a KEYS message of the foreign endpoint
\* (is_client is False), which stores the key received first
CallSendPublicKey(t) ==
    /\ \/ t = "accept" /\ Task(t).pc = "call"
       \/ t = "ui" /\ MayStart(t)
    /\ TaskStep(t, [Task(t) EXCEPT !.pc = "test", !.calls = @ + 1])

ReceiveKeys ==
    /\ MayStart("recv")
    /\ ~is_client["A"]
    /\ InstallApp(update_chat([Begin("A") EXCEPT !.other_public_key["A"] =
                                                      Some(PublicOf(ForeignKey))],
                              "A", "Received public key."))
    /\ threads' = [threads EXCEPT !.task["recv"].pc = "test", !.task["recv"].calls = @ + 1]
    /\ UNCHANGED rsa

\* send_public_key: if self.client_socket and self.rsa.key_pair
TestKeys(t) ==
    /\ Task(t).pc = "test"
    /\ IF client_socket["A"] # None /\ key_pair["A"] # None
       THEN TaskStep(t, [Task(t) EXCEPT !.pc = "read_N"])
       ELSE /\ InstallApp(update_chat(Begin("A"), "A",
                    "Cannot send public key; no connection or keys not generated."))
            /\ threads' = Returned(t)
            /\ UNCHANGED rsa

\* N = self.rsa.key_pair.public_key.N
ReadN(t) ==
    /\ Task(t).pc = "read_N"
    /\ TaskStep(t, [Task(t) EXCEPT !.pc = "read_E", !.N = key_pair["A"][1].N])

\* E = self.rsa.key_pair.public_key.E; then send_data up to sendall
ReadE(t) ==
    /\ Task(t).pc = "read_E"
    /\ TaskStep(t, [Task(t) EXCEPT !.pc = "sendall", !.E = key_pair["A"][1].E,
                                  !.rest = FrameOf(KeyMessage(Task(t).N, key_pair["A"][1].E))])

\* The writes on the connection since it was last at a frame boundary:
\* once every task that wrote has written the last bytes of its frame, the
\* remote end has whole frames and the record starts again
SinceBoundary(sent) ==
    IF \A i \in 1..Len(sent) :
           sent[i].last \/ \E j \in (i + 1)..Len(sent) : sent[j].by = sent[i].by
    THEN <<>> ELSE sent

\* socket.sendall: one send of the first n bytes that are left
Send(t, n) ==
    /\ Task(t).pc = "sendall"
    /\ Task(t).rest # <<>>
    /\ n \in {header_size, Len(Task(t).rest)}
    /\ n <= Len(Task(t).rest)
    /\ threads' = [threads EXCEPT
                       !.task[t].rest = Drop(@, n),
                       !.sent = SinceBoundary(
                                    Append(@, [by |-> t, bytes |-> Take(Task(t).rest, n),
                                               last |-> n = Len(Task(t).rest)]))]
    /\ UNCHANGED <<appvars, rsa>>

\* what send_public_key leaves once sendall returned: the message is out
KeySent(s, p, N, E) ==
    update_chat([s EXCEPT !.out[p] = Append(@, KeyMessage(N, E)),
                          !.announced[p] = @ \cup {[N |-> N, E |-> E]}],
                p, "Public key sent.")

\* socket.sendall returns, and send_public_key after it
SendallReturns(t) ==
    /\ Task(t).pc = "sendall"
    /\ Task(t).rest = <<>>
    /\ InstallApp(KeySent(Begin("A"), "A", Task(t).N, Task(t).E))
    /\ threads' = Returned(t)
    /\ UNCHANGED rsa

\* handle_received_message for an envelope of the foreign endpoint, up to
\* the call of self.rsa.decrypt
ReceiveEnvelope ==
    /\ MayStart("recv")
    /\ key_pair["A"] # None
    /\ TaskStep("recv", [Task("recv") EXCEPT !.pc = "read_D", !.calls = @ + 1,
                                            !.todo = ThreadCiphertext, !.used = <<>>,
                                            !.signature = JInt(ThreadSignature)])

\* decrypt: self.key_pair.private_key.D, for the next unit
ReadD ==
    /\ Task("recv").pc = "read_D"
    /\ Task("recv").todo # <<>>
    /\ TaskStep("recv", [Task("recv") EXCEPT !.pc = "read_N_of_unit", !.D = key_pair["A"][1].D])

\* decrypt: self.key_pair.public_key.N, and pow() for the unit
ReadNOfUnit ==
    /\ Task("recv").pc = "read_N_of_unit"
    /\ TaskStep("recv", [Task("recv") EXCEPT
                            !.pc = "read_D", !.todo = Tail(@),
                            !.used = Append(@, [D |-> Task("recv").D, N |-> key_pair["A"][1].N,
                                                c |-> Head(Task("recv").todo)])])

\* the integers decrypt passes to chr()
CodesOf(used) == [i \in 1..Len(used) |-> ModExp(used[i].c, used[i].D, used[i].N)]

\* decrypt returns or raises, and handle_received_message after it
DecryptReturns ==
    /\ Task("recv").pc = "read_D"
    /\ Task("recv").todo = <<>>
    /\ InstallApp(ShowOutcome(Begin("A"), "A",
                      OutcomeOfChars(other_public_key["A"], CodesOf(Task("recv").used),
                                     Task("recv").signature, JStr(<<88>>))))
    /\ threads' = Returned("recv")
    /\ UNCHANGED rsa

NextThreads ==
    \/ \E kp \in ThreadKeyPairs : UiGenerateNewKeys(kp)
    \/ \E kp \in ThreadKeyPairs : UiLoadStoredKeys(kp)
    \/ \E t \in Tasks : CallSendPublicKey(t)
    \/ ReceiveKeys
    \/ \E t \in Tasks : TestKeys(t)
    \/ \E t \in Tasks : ReadN(t)
    \/ \E t \in Tasks : ReadE(t)
    \/ \E t \in Tasks : \E n \in {header_size, Len(Task(t).rest)} : Send(t, n)
    \/ \E t \in Tasks : SendallReturns(t)
    \/ ReceiveEnvelope
    \/ ReadD
    \/ ReadNOfUnit
    \/ DecryptReturns

SpecThreads == InitThreads /\ [][NextThreads]_vars

\* the integers N and E, or D and N, are fields of one key pair
OnePublicKey(N, E) == \E kp \in ThreadKeyPairs : kp.N = N /\ kp.E = E
OneKeyPair(used) ==
    \E kp \in ThreadKeyPairs : \A i \in 1..Len(used) : used[i].D = kp.D /\ used[i].N = kp.N

\* C16: key fields are read consistently under concurrency.  Every KEYS
\* message send_public_key builds off the UI thread announces N and E of one
\* key pair, and decrypt uses D and N of one and the same key pair for all
\* the units of an envelope, whatever the UI thread stores meanwhile.
C16_ConsistentKeyReads ==
    /\ \A t \in {"accept", "recv"} :
           Task(t).pc = "sendall" => OnePublicKey(Task(t).N, Task(t).E)
    /\ \A k \in announced["A"] : OnePublicKey(k.N, k.E)
    /\ OneKeyPair(Task("recv").used)

\* C17: single writer on the transport.  At no time are two tasks inside
\* socket.sendall on the connection, and the writes of one frame are not
\* separated by a write of another task.
C17_SingleWriter ==
    /\ Cardinality({t \in Tasks : Task(t).pc = "sendall"}) <= 1
    /\ \A i \in 1..(Len(threads.sent) - 1) :
           ~threads.sent[i].last => threads.sent[i + 1].by = threads.sent[i].by

\* ---------------------------------------------------------------------
\* The remote key over the frames of SpecEnvelope
\* ---------------------------------------------------------------------

\* message is a handshake message that parses
IsWellFormedKeys(message) == StartsWith(message, KeysPrefix) /\ ParseKeys(message).ok

\* the key a well-formed handshake message carries
KeyOf(message) == [N |-> ParseKeys(message).N, E |-> ParseKeys(message).E]

\* C18: the remote key is last-writer-wins.  other_public_key starts absent;
\* a step in which the receive loop processes a well-formed handshake message
\* leaves it equal to the (N, E) of that message; every other step (a
\* malformed handshake message, any envelope, a connection made or closed)
\* leaves it unchanged.  So it is absent iff no well-formed handshake message
\* was processed, and otherwise it is the key of the latest one, which is
\* also the latest one of the current connection if there is one.
C18_LastWriterWins ==
    /\ \A p \in Peers : other_public_key[p] = None
    /\ [][\A p \in Peers :
             IF Handles(p) /\ IsWellFormedKeys(Latest(p))
             THEN other_public_key'[p] = Some(KeyOf(Latest(p)))
             ELSE other_public_key'[p] = other_public_key[p]]_vars
    /\ [](\A p \in Peers :
             KeysHandled(p) # {} =>
                 other_public_key[p] = Some(KeyOf(dispatched[p][SetMax(KeysHandled(p))])))

\* C18 happens: "A" processed the key of the foreign endpoint and then its
\* second key, and holds the second
C18_Overwritten ==
    /\ dispatched["A"] = <<KeyMessage(ForeignKey.N, ForeignKey.E),
                           KeyMessage(SecondForeignKey.N, SecondForeignKey.E)>>
    /\ other_public_key["A"] = Some(SecondForeignKey)

\* ---------------------------------------------------------------------
\* RSA.is_prime on its own: a call with n and k, and one step for each pass
\* of its outer for loop, with the base the pass draws
\* ---------------------------------------------------------------------

\* the values of n, from -2 on, and the values of k, from 0 on
MaxPrimeInput == 30
MaxPasses == 2

\* is_prime(n, k) is called, up to its outer for loop; range(k) is empty
\* for k = 0
IsPrimeCall(n, k) ==
    /\ rsa.test.pc # "loop"
    /\ SetRsa([rsa EXCEPT !.test =
           IF n \in {2, 3}
           THEN [pc |-> "returned", n |-> n, k |-> k, bases |-> <<>>, result |-> TRUE]
           ELSE IF n <= 1 \/ n % 2 = 0
           THEN [pc |-> "returned", n |-> n, k |-> k, bases |-> <<>>, result |-> FALSE]
           ELSE IF k = 0
           THEN [pc |-> "returned", n |-> n, k |-> k, bases |-> <<>>, result |-> TRUE]
           ELSE [pc |-> "loop", n |-> n, k |-> k, bases |-> <<>>, result |-> FALSE]])

\* one pass of the outer for loop, a = random.randrange(2, n - 1): return
\* False, or go on, or return True after the last pass
Pass(a) ==
    /\ rsa.test.pc = "loop"
    /\ a \in Bases(rsa.test.n)
    /\ SetRsa([rsa EXCEPT
           !.test.bases = Append(@, a),
           !.test.result = Round(rsa.test.n, a, Split(0, rsa.test.n - 1)),
           !.test.pc = IF ~Round(rsa.test.n, a, Split(0, rsa.test.n - 1)) THEN "returned"
                       ELSE IF Len(rsa.test.bases) + 1 = rsa.test.k THEN "returned"
                       ELSE "loop"])

NextPrime ==
    \/ \E n \in (-2)..MaxPrimeInput : \E k \in 0..MaxPasses : IsPrimeCall(n, k)
    \/ \E a \in 2..MaxPrimeInput : Pass(a)

SpecPrime == Init /\ [][NextPrime]_vars

\* m = 2^s * d with d odd, for m > 0
TwoPart(m) == CHOOSE s \in 0..m : m % Pow2(s) = 0 /\ (m \div Pow2(s)) % 2 = 1
OddPart(m) == m \div Pow2(TwoPart(m))

\* a is a Miller-Rabin witness of compositeness for the odd n: with
\* n - 1 = 2^s * d, a^d is neither 1 nor -1 modulo n, and a^(2^j * d) is
\* not -1 modulo n for 0 < j < s
IsWitness(n, a) ==
    /\ ModExp(a, OddPart(n - 1), n) \notin {1, n - 1}
    /\ \A j \in 1..(TwoPart(n - 1) - 1) : ModExp(a, Pow2(j) * OddPart(n - 1), n) # n - 1

\* C21: Miller-Rabin result.  is_prime(n, k) returns true for n in {2, 3},
\* false for n <= 1 and for even n > 2; for odd n >= 5 every base is drawn
\* from [2, n - 2], and it returns true iff it drew k bases and none of
\* them is a Miller-Rabin witness of compositeness for n, false iff the
\* last base it drew is one; it returns true for every prime n.
C21_MillerRabinResult ==
    rsa.test.pc = "returned" =>
        /\ rsa.test.n \in {2, 3} => rsa.test.result
        /\ rsa.test.n <= 1 => ~rsa.test.result
        /\ (rsa.test.n > 2 /\ rsa.test.n % 2 = 0) => ~rsa.test.result
        /\ (rsa.test.n >= 5 /\ rsa.test.n % 2 = 1) =>
               /\ \A i \in 1..Len(rsa.test.bases) :
                      rsa.test.bases[i] >= 2 /\ rsa.test.bases[i] <= rsa.test.n - 2
               /\ rsa.test.result <=>
                      /\ Len(rsa.test.bases) = rsa.test.k
                      /\ \A i \in 1..Len(rsa.test.bases) :
                             ~IsWitness(rsa.test.n, rsa.test.bases[i])
               /\ ~rsa.test.result =>
                      /\ rsa.test.bases # <<>>
                      /\ IsWitness(rsa.test.n, rsa.test.bases[Len(rsa.test.bases)])
        /\ TruePrime(rsa.test.n) => rsa.test.result

\* C21 happens: is_prime(17, 2) drew the bases 3 and 5 and returned true
C21_PrimeAccepted ==
    /\ rsa.test.pc = "returned"
    /\ rsa.test.n = 17 /\ rsa.test.k = 2
    /\ rsa.test.bases = <<3, 5>>
    /\ rsa.test.result
====
